---- MODULE Spec2Model ----
(***************************************************************************)
(* A model of the ranking scraper / historical analyzer of release-creator *)
(* (streamlit-app/analyzer.py, scraper.py, site_analyzer.py, app.py and    *)
(* src/scraping/url_resolver.py, src/data_access/master_data_loader.py).   *)
(*                                                                         *)
(* The module holds several sub-models, each with its own variables and    *)
(* its own specification:                                                  *)
(*   SpecAnalyzer  HistoricalAnalyzer: streaks and most-wins of a series   *)
(*   SpecTopics    TopicsAnalyzer: item / department dominance counts      *)
(*   SpecFetch     OriconScraper._fetch_ranking_page and the discoverers   *)
(*   SpecOverall   OriconScraper.get_overall_rankings (thread pool)        *)
(*   SpecUrls      the slug corrections and URL inference of the scraper   *)
(*                 and of URLResolver                                      *)
(*   SpecResolver  MasterDataLoader and URLResolver.get_url                *)
(*   SpecAlias     the company alias table and normalize_company_name      *)
(*   SpecGap       TopicsAnalyzer._analyze_score_difference                *)
(*   SpecRetry     the retrying HTTP session of the scraper                *)
(*   SpecMemo      the memoized site structure and actual top year         *)
(*   SpecExcel     create_excel_export followed by parse_uploaded_excel    *)
(*   SpecCat       get_evaluation_items / get_departments: the year loop   *)
(*   SpecVal       URLResolverWithValidation.get_url_with_validation       *)
(*   SpecMerge     the upload merged with the scrape (merge_data)          *)
(*   SpecAuto      analyze_structure with URL correction, then fetches     *)
(*   SpecIndex     MasterDataLoader.reload after the file changed          *)
(*   SpecWins      the consecutive-win topic next to the streak records    *)
(* Every action leaves the variables of the other sub-models unchanged.    *)
(***************************************************************************)
EXTENDS Integers, Sequences, FiniteSets, TLC

VARIABLES
    \* ---- HistoricalAnalyzer ----
    category,         \* which YearSeries is analysed: "overall" or "trend"
    series,           \* the YearSeries: year -> sequence of entries
    phase,            \* position of the analysis
    yearIdx,          \* index into sorted(series.keys()) of the next year
    company_current,  \* company -> [start, count, years_list] (open streaks)
    company_streaks,  \* closed streaks, in the order they were closed
    results,          \* the streak records returned
    most_wins         \* company -> [wins, years, total_years]

analyzerVars == <<category, series, phase, yearIdx, company_current,
                  company_streaks, results, most_wins>>

VARIABLES
    \* ---- TopicsAnalyzer: item / department dominance ----
    topic_kind,       \* "item" (self.items) or "dept" (self.depts)
    topic_data,       \* the categories, in dict order: sequence of year_data
    topic_phase,      \* "ready" or "done"
    wins,             \* raw company name -> number of categories won
    actual_count,     \* actual_items / actual_depts
    topic             \* the returned topic, or None

topicsVars == <<topic_kind, topic_data, topic_phase, wins, actual_count, topic>>

VARIABLES
    \* ---- OriconScraper / SiteStructureAnalyzer: one page request ----
    fetch_op,         \* the method called
    fault,            \* the exception the request or the parse throws, or "none"
    page,             \* what the response holds
    fetch_pc,         \* position inside the method
    boxIdx,           \* index of the next ranking box
    rankings,         \* _fetch_ranking_page.rankings
    seen_companies,   \* _fetch_ranking_page.seen_companies
    returned,         \* the value handed back to the caller
    raised            \* the exception that reached the caller, or "none"

fetchVars == <<fetch_op, fault, page, fetch_pc, boxIdx, rankings,
               seen_companies, returned, raised>>

VARIABLES
    \* ---- OriconScraper.get_overall_rankings ----
    subpath,          \* self.subpath is set
    site,             \* the URLs whose page carries a ranking
    top_page_year,    \* the year the top page shows, or None
    year_range,       \* <<start_year, end_year>>
    _actual_top_year, \* self._actual_top_year
    overall_pc,       \* position inside get_overall_rankings
    futures,          \* the years whose future has not been consumed
    year_results,     \* get_overall_rankings.results
    used_urls         \* self.used_urls["overall"]

overallVars == <<subpath, site, top_page_year, year_range, _actual_top_year,
                 overall_pc, futures, year_results, used_urls>>

VARIABLES
    \* ---- URL construction: OriconScraper and URLResolver ----
    slug_input,       \* the ranking slug / identifier given by the caller
    url_op,           \* the method that built the URL
    url_pc,           \* "ready" or "done"
    url_out           \* what the method returned

urlVars == <<slug_input, url_op, url_pc, url_out>>

VARIABLES
    \* ---- MasterDataLoader and URLResolver ----
    main_file,        \* the file at data_path
    backup_file,      \* the file at data_path + ".backup"
    identifier,       \* the ranking id or slug to resolve
    resolver_pc,      \* "new", "constructed", "raised" or "resolved"
    master_data,      \* MasterDataLoader.data
    rankings_by_id,   \* MasterDataLoader.rankings_by_id
    rankings_by_slug, \* MasterDataLoader.rankings_by_slug
    resolver_raised,  \* the exception that left URLResolver(), if any
    resolved          \* what get_url returned

resolverVars == <<main_file, backup_file, identifier, resolver_pc, master_data,
                  rankings_by_id, rankings_by_slug, resolver_raised, resolved>>

VARIABLES
    \* ---- the alias table in effect and normalize_company_name ----
    alias_file,       \* config/company_aliases.json
    aliases_loaded,   \* the module-level COMPANY_ALIASES
    name_input,       \* the company name given to normalize_company_name
    name_once,        \* normalize(x)
    name_twice,       \* normalize(normalize(x))
    alias_pc          \* "import", "loaded", "once" or "twice"

aliasVars == <<alias_file, aliases_loaded, name_input, name_once, name_twice, alias_pc>>

VARIABLES
    \* ---- TopicsAnalyzer._analyze_score_difference ----
    overall_scores,   \* self.overall[latest_year]: scores in hundredths of a point
    gap_pc,           \* "ready" or "done"
    gap_topic         \* the topic returned, or None

gapVars == <<overall_scores, gap_pc, gap_topic>>

VARIABLES
    \* ---- session.get under the Retry policy of the HTTPAdapter ----
    session_of,       \* whose session sends the GET: "scraper" or "site_analyzer"
    retry_left,       \* Retry.total of the request in progress
    responses,        \* the status of every attempt so far, in order
    sleeps,           \* the backoff slept before each retry, in seconds
    get_result        \* None while in progress, then what session.get gave

retryVars == <<session_of, retry_left, responses, sleeps, get_result>>

VARIABLES
    \* ---- the memoized year and site structure of one OriconScraper ----
    page_year,        \* the year the top page shows now (None: not detectable)
    memo_year,        \* self._actual_top_year
    _site_structure,  \* self._site_structure
    detect_calls,     \* calls of _detect_actual_year so far
    analyze_calls,    \* calls of SiteStructureAnalyzer.analyze so far
    ops,              \* operations invoked on the object so far
    last_op           \* the operation invoked last

memoVars == <<page_year, memo_year, _site_structure, detect_calls, analyze_calls, ops, last_op>>

VARIABLES
    \* ---- create_excel_export and parse_uploaded_excel ----
    xl_kind,          \* the category exported: "overall", "item" or "dept"
    xl_name,          \* the name of the evaluation item or department
    xl_series,        \* its YearSeries: year -> list of entries
    workbook,         \* the sheets written by create_excel_export
    parsed,           \* overall_data, item_data, dept_data of the parser
    xl_pc             \* "ready", "exported" or "parsed"

excelVars == <<xl_kind, xl_name, xl_series, workbook, parsed, xl_pc>>

VARIABLES
    \* ---- get_evaluation_items / get_departments: the year loop ----
    cat_kind,         \* "items" or "departments"
    cat_count,        \* how many items / departments the top page lists
    cat_years,        \* the years to try, in loop order
    cat_top,          \* actual_top_year
    cat_subpath,      \* whether the scraper has a sub-path
    cat_idx,          \* the item / department being fetched (1-based)
    year_pos,         \* index into cat_years of the next year
    consecutive_not_found, \* the counter of the current item / department
    cat_used,         \* its used_urls entries, in order
    cat_requests,     \* the pages requested for it, in order
    cat_results,      \* results[name]: the years stored for it
    cat_pc            \* "ready", "loop" or "returned"

catVars == <<cat_kind, cat_count, cat_years, cat_top, cat_subpath, cat_idx, year_pos, consecutive_not_found, cat_used, cat_requests, cat_results, cat_pc>>

VARIABLES
    \* ---- URLResolverWithValidation.get_url_with_validation ----
    val_doc,          \* the master data the resolver was constructed from
    val_ident,        \* the identifier given
    val_session,      \* whether a session is configured
    val_primary,      \* None, then <<url, mode>> of get_url
    val_alts,         \* the alternatives of get_alternative_urls
    val_alt_idx,      \* index into val_alts of the next alternative
    val_requests,     \* every session.get of the call: URL and answer, in order
    val_result,       \* None while running, then what the call returned or raised
    val_pc            \* "ready", "primary", "alternatives" or "done"

valVars == <<val_doc, val_ident, val_session, val_primary, val_alts, val_alt_idx, val_requests, val_result, val_pc>>

VARIABLES
    \* ---- the upload merged with the scrape (app.py 1095-1205) ----
    mg_kind,          \* "overall" (merge_data) or "nested" (merge_nested_data)
    mg_range,         \* year_range, its end not after the year of the site
    mg_uploaded,      \* the data of parse_uploaded_excel
    mg_scraped,       \* the data of the scraper
    mg_merged,        \* the merged data
    mg_pc             \* "uploaded", "scraped" or "merged"

mergeVars == <<mg_kind, mg_range, mg_uploaded, mg_scraped, mg_merged, mg_pc>>

VARIABLES
    \* ---- the structure analysis that corrects the URL (scraper.py 561-606) ----
    ac_scraper,       \* the fields of the OriconScraper object
    ac_status,        \* the status the site answers for each URL
    ac_analyzed,      \* the URL the structure was analysed at
    ac_fetch,         \* the operation and the top URL of the latest fetch
    ac_pc             \* "new", "analyzed" or "fetched"

autoVars == <<ac_scraper, ac_status, ac_analyzed, ac_fetch, ac_pc>>

VARIABLES
    \* ---- a loader reloaded after its file changed (master_data_loader.py) ----
    ix_file,          \* the master data file as it is now
    ix_backup,        \* the .backup file
    ix_loader,        \* the fields of the MasterDataLoader object
    ix_raised,        \* the exception of the latest load
    ix_reloads,       \* the number of reload() calls
    ix_pc             \* "new", "loaded", "changed", "reloaded" or "raised"

indexVars == <<ix_file, ix_backup, ix_loader, ix_raised, ix_reloads, ix_pc>>

VARIABLES
    \* ---- the consecutive-win topic next to the streak records ----
    win_topic,        \* what TopicsAnalyzer._analyze_consecutive_wins returns
    win_pc            \* "start" or "done"

winsVars == <<win_topic, win_pc>>

vars == <<analyzerVars, topicsVars, fetchVars, overallVars, urlVars, resolverVars, aliasVars, gapVars, retryVars, memoVars, excelVars, catVars, valVars, mergeVars, autoVars, indexVars, winsVars>>

\* what the actions of one sub-model leave unchanged
notAnalyzerVars == <<topicsVars, fetchVars, overallVars, urlVars, resolverVars, aliasVars, gapVars, retryVars, memoVars, excelVars, catVars, valVars, mergeVars, autoVars, indexVars, winsVars>>
notTopicsVars == <<analyzerVars, fetchVars, overallVars, urlVars, resolverVars, aliasVars, gapVars, retryVars, memoVars, excelVars, catVars, valVars, mergeVars, autoVars, indexVars, winsVars>>
notFetchVars == <<analyzerVars, topicsVars, overallVars, urlVars, resolverVars, aliasVars, gapVars, retryVars, memoVars, excelVars, catVars, valVars, mergeVars, autoVars, indexVars, winsVars>>
notOverallVars == <<analyzerVars, topicsVars, fetchVars, urlVars, resolverVars, aliasVars, gapVars, retryVars, memoVars, excelVars, catVars, valVars, mergeVars, autoVars, indexVars, winsVars>>
notUrlVars == <<analyzerVars, topicsVars, fetchVars, overallVars, resolverVars, aliasVars, gapVars, retryVars, memoVars, excelVars, catVars, valVars, mergeVars, autoVars, indexVars, winsVars>>
notResolverVars == <<analyzerVars, topicsVars, fetchVars, overallVars, urlVars, aliasVars, gapVars, retryVars, memoVars, excelVars, catVars, valVars, mergeVars, autoVars, indexVars, winsVars>>
notAliasVars == <<analyzerVars, topicsVars, fetchVars, overallVars, urlVars, resolverVars, gapVars, retryVars, memoVars, excelVars, catVars, valVars, mergeVars, autoVars, indexVars, winsVars>>
notGapVars == <<analyzerVars, topicsVars, fetchVars, overallVars, urlVars, resolverVars, aliasVars, retryVars, memoVars, excelVars, catVars, valVars, mergeVars, autoVars, indexVars, winsVars>>
notRetryVars == <<analyzerVars, topicsVars, fetchVars, overallVars, urlVars, resolverVars, aliasVars, gapVars, memoVars, excelVars, catVars, valVars, mergeVars, autoVars, indexVars, winsVars>>
notMemoVars == <<analyzerVars, topicsVars, fetchVars, overallVars, urlVars, resolverVars, aliasVars, gapVars, retryVars, excelVars, catVars, valVars, mergeVars, autoVars, indexVars, winsVars>>
notExcelVars == <<analyzerVars, topicsVars, fetchVars, overallVars, urlVars, resolverVars, aliasVars, gapVars, retryVars, memoVars, catVars, valVars, mergeVars, autoVars, indexVars, winsVars>>
notCatVars == <<analyzerVars, topicsVars, fetchVars, overallVars, urlVars, resolverVars, aliasVars, gapVars, retryVars, memoVars, excelVars, valVars, mergeVars, autoVars, indexVars, winsVars>>
notValVars == <<analyzerVars, topicsVars, fetchVars, overallVars, urlVars, resolverVars, aliasVars, gapVars, retryVars, memoVars, excelVars, catVars, mergeVars, autoVars, indexVars, winsVars>>
notMergeVars == <<analyzerVars, topicsVars, fetchVars, overallVars, urlVars, resolverVars, aliasVars, gapVars, retryVars, memoVars, excelVars, catVars, valVars, autoVars, indexVars, winsVars>>
notAutoVars == <<analyzerVars, topicsVars, fetchVars, overallVars, urlVars, resolverVars, aliasVars, gapVars, retryVars, memoVars, excelVars, catVars, valVars, mergeVars, indexVars, winsVars>>
notIndexVars == <<analyzerVars, topicsVars, fetchVars, overallVars, urlVars, resolverVars, aliasVars, gapVars, retryVars, memoVars, excelVars, catVars, valVars, mergeVars, autoVars, winsVars>>
notWinsVars == <<analyzerVars, topicsVars, fetchVars, overallVars, urlVars, resolverVars, aliasVars, gapVars, retryVars, memoVars, excelVars, catVars, valVars, mergeVars, autoVars, indexVars>>

(***************************************************************************)
(* Optional values.  Python's None is the empty tuple, a present value v   *)
(* is <<v>>: a score of 10 is <<10>>, a missing score is <<>>.             *)
(***************************************************************************)
None == <<>>
Some(v) == <<v>>

(***************************************************************************)
(* Strings are sequences of characters, so that strip / translate /        *)
(* re.sub act on them as the code does.  The characters of the model:      *)
(*   "A" "B" "O"   half-width letters                                      *)
(*   "zA"          the full-width letter A (U+FF21)                        *)
(*   "sp"          the ASCII space, "zsp" the full-width space (U+3000)    *)
(***************************************************************************)
IsSpace(c) == c \in {"sp", "zsp"}

\* str.translate(zen_to_han): full-width alphanumerics to half-width
zen_to_han(c) == IF c = "zA" THEN "A" ELSE c

RECURSIVE LStrip(_)
LStrip(s) == IF s # <<>> /\ IsSpace(Head(s)) THEN LStrip(Tail(s)) ELSE s

RECURSIVE RStrip(_)
RStrip(s) ==
    IF s # <<>> /\ IsSpace(s[Len(s)]) THEN RStrip(SubSeq(s, 1, Len(s) - 1)) ELSE s

\* str.strip(): leading and trailing whitespace (U+3000 included) removed
Strip(s) == RStrip(LStrip(s))

Translate(s) == [i \in 1..Len(s) |-> zen_to_han(s[i])]

\* re.sub(r'[\s　]+', ' ', s): every run of whitespace becomes one space
RECURSIVE CollapseSpaces(_)
CollapseSpaces(s) ==
    IF s = <<>> THEN <<>>
    ELSE IF IsSpace(Head(s))
         THEN <<"sp">> \o CollapseSpaces(LStrip(s))
         ELSE <<Head(s)>> \o CollapseSpaces(Tail(s))

(***************************************************************************)
(* The company names of the model and the alias table.  NameAold is a      *)
(* former name of company A, as "Z会の通信教育" is of "Z会" in the default   *)
(* table.                                                                  *)
(***************************************************************************)
NameA == <<"A">>
NameB == <<"B">>
NameAold == <<"O">>

DEFAULT_COMPANY_ALIASES == (NameAold :> NameA)

COMPANY_ALIASES == DEFAULT_COMPANY_ALIASES

NormalizeDropsAliases(company) ==
    IF company = <<>> THEN company
    ELSE CollapseSpaces(Translate(Strip(company)))

\* normalize_company_name with the module-level table given
NormalizeWith(aliases, company) ==
    IF company = <<>> THEN company
    ELSE LET normalized == CollapseSpaces(Translate(Strip(company)))
         IN  IF company \in DOMAIN aliases
                 THEN aliases[company]
             ELSE IF normalized \in DOMAIN aliases
                 THEN aliases[normalized]
             ELSE normalized

\* normalize_company_name when no alias file is present
normalize_company_name(company) == NormalizeWith(COMPANY_ALIASES, company)

(***************************************************************************)
(* Rankings.  An entry is {"rank", "company", "score"}; a ranking is the   *)
(* list of entries of one year.  Scores are in tenths of a point.          *)
(***************************************************************************)
Entry(rank, company, score) == [rank |-> rank, company |-> company, score |-> score]

SoloA == <<Entry(Some(1), NameA, Some(100))>>
SoloB == <<Entry(Some(1), NameB, Some(100))>>
TieAB == <<Entry(Some(1), NameA, Some(100)), Entry(Some(1), NameB, Some(100))>>
OldThenB == <<Entry(Some(1), NameAold, Some(100)), Entry(Some(2), NameB, Some(90))>>
OldTieA == <<Entry(Some(1), NameAold, Some(100)), Entry(Some(1), NameA, Some(100))>>
\* an archived page of the old layout: ranks and names, no scores
Unscored == <<Entry(Some(1), NameA, None), Entry(Some(2), NameB, None)>>

\* a year that is a key of the series but carries no ranking
NoRanking == <<>>

SampleRankings == {SoloA, SoloB, TieAB, OldThenB, OldTieA, Unscored}

BaseYear == 2020
MaxYears == 4
Years == BaseYear..(BaseYear + MaxYears - 1)

\* every series over a subset of Years: a year is absent, empty, or ranked
AllSeries ==
    UNION {[D -> SampleRankings \cup {NoRanking}] : D \in SUBSET Years}

(***************************************************************************)
(* Sequence helpers.                                                       *)
(***************************************************************************)
Max(S) == CHOOSE x \in S : \A y \in S : y <= x
Min(S) == CHOOSE x \in S : \A y \in S : x <= y

\* sorted(keys) of a set of integer years
RECURSIVE SortedYears(_)
SortedYears(S) ==
    IF S = {} THEN <<>> ELSE <<Min(S)>> \o SortedYears(S \ {Min(S)})

\* a set as a sequence, in an order the program does not fix (set / dict
\* iteration order of companies met in the same year)
RECURSIVE SetToSeq(_)
SetToSeq(S) ==
    IF S = {} THEN <<>>
    ELSE LET x == CHOOSE y \in S : TRUE IN <<x>> \o SetToSeq(S \ {x})

Last(s) == s[Len(s)]

\* tuples of integers compared as Python compares tuples
RECURSIVE LexLess(_, _)
LexLess(k1, k2) ==
    IF k1 = <<>> \/ k2 = <<>> THEN k1 = <<>> /\ k2 # <<>>
    ELSE IF Head(k1) # Head(k2) THEN Head(k1) < Head(k2)
    ELSE LexLess(Tail(k1), Tail(k2))

\* x placed after every element whose key is not greater than its own
RECURSIVE InsertByKey(_, _)
InsertByKey(x, s) ==
    IF s = <<>> THEN <<x>>
    ELSE IF LexLess(x.key, Head(s).key) THEN <<x>> \o s
    ELSE <<Head(s)>> \o InsertByKey(x, Tail(s))

\* list.sort(key=...) of a list of [key, val]: stable
RECURSIVE StableSort(_)
StableSort(s) ==
    IF s = <<>> THEN <<>>
    ELSE InsertByKey(Last(s), StableSort(SubSeq(s, 1, Len(s) - 1)))

Vals(s) == [i \in 1..Len(s) |-> s[i].val]

(***************************************************************************)
(* HistoricalAnalyzer: the co-#1 set of one year.                          *)
(***************************************************************************)
\* The loop over the entries of a year (analyzer.py 209-219): an entry whose
\* score equals the top score adds its normalized company, the first entry
\* with another score ends the loop, an entry without score is passed over.
RECURSIVE TopScan(_, _)
TopScan(data, top_score) ==
    IF data = <<>> THEN {}
    ELSE LET e == Head(data)
             company == normalize_company_name(e.company)
         IN  IF e.score # None /\ e.score = top_score
                 THEN (IF company # <<>> THEN {company} ELSE {})
                      \cup TopScan(Tail(data), top_score)
             ELSE IF e.score # None /\ e.score # top_score
                 THEN {}
             ELSE TopScan(Tail(data), top_score)

TopCompaniesFirstOnly(data) ==
    LET company == normalize_company_name(Head(data).company)
    IN  IF Head(data).score # None /\ company # <<>> THEN {company} ELSE {}

\* top_companies of a year with data
TopCompanies(data) == TopScan(data, Head(data).score)

(***************************************************************************)
(* HistoricalAnalyzer: the per-year update of the open streaks.            *)
(***************************************************************************)
NewStreak(year) == [start |-> year, count |-> 1, years_list |-> <<year>>]

\* a variant that resumes the company's last closed streak
ExtendOrStartMerging(current, top_companies, year) ==
    [c \in DOMAIN current \cup top_companies |->
        IF c \in top_companies
        THEN IF c \in DOMAIN current
             THEN [start |-> current[c].start,
                   count |-> current[c].count + 1,
                   years_list |-> Append(current[c].years_list, year)]
             ELSE IF \E i \in 1..Len(company_streaks) : company_streaks[i].company = c
             THEN LET i == CHOOSE j \in 1..Len(company_streaks) :
                                company_streaks[j].company = c
                  IN  [start |-> company_streaks[i].start,
                       count |-> company_streaks[i].count + 1,
                       years_list |-> Append(company_streaks[i].years_list, year)]
             ELSE NewStreak(year)
        ELSE current[c]]

\* analyzer.py 222-233
ExtendOrStart(current, top_companies, year) ==
    [c \in DOMAIN current \cup top_companies |->
        IF c \in top_companies
        THEN IF c \in DOMAIN current
             THEN [start |-> current[c].start,
                   count |-> current[c].count + 1,
                   years_list |-> Append(current[c].years_list, year)]
             ELSE NewStreak(year)
        ELSE current[c]]

\* the record a popped streak leaves (analyzer.py 239-244)
StreakRecord(company, streak) ==
    [company |-> company,
     start |-> streak.start,
     end |-> IF streak.years_list # <<>> THEN Last(streak.years_list) ELSE streak.start,
     count |-> streak.count,
     years_list |-> streak.years_list]

\* the records of the companies in `closing`, in dict order
ClosedRecords(current, closing) ==
    LET order == SetToSeq(closing)
    IN  [i \in 1..Len(order) |-> StreakRecord(order[i], current[order[i]])]

Restrict(f, S) == [x \in S |-> f[x]]

(***************************************************************************)
(* HistoricalAnalyzer: the returned streak records.                        *)
(***************************************************************************)
\* company_streaks is a dict company -> list: its records come out grouped
\* by company, the companies in the order of their first closed streak
RECURSIVE GroupByCompany(_)
GroupByCompany(records) ==
    IF records = <<>> THEN <<>>
    ELSE LET c == Head(records).company
             Same(r) == r.company = c
             Other(r) == r.company # c
         IN  SelectSeq(records, Same) \o GroupByCompany(SelectSeq(records, Other))

\* analyzer.py 267: is_current of a record of the overall series
IsCurrentOverall(record, max_year) == record.end = max_year

\* analyzer.py 601 / 695: is_current of a record still open at the end of
\* an item or department series
IsCurrentTrend(record, max_year) ==
    IF record.years_list # <<>> /\ max_year # None
    THEN Last(record.years_list) = max_year[1]
    ELSE FALSE

ResultRecord(record, is_current) ==
    [company |-> record.company,
     start_year |-> record.start,
     end_year |-> record.end,
     years |-> record.count,
     years_list |-> record.years_list,
     is_current |-> is_current]

\* _calc_consecutive_wins 255-272: every record formatted, then sorted by
\* (-years, -end_year)
OverallResults(records, max_year) ==
    LET grouped == GroupByCompany(records)
        keyed == [i \in 1..Len(grouped) |->
                    [key |-> <<0 - grouped[i].count, 0 - grouped[i].end>>,
                     val |-> ResultRecord(grouped[i],
                                Some(IsCurrentOverall(grouped[i], max_year)))]]
    IN  Vals(StableSort(keyed))

\* analyze_item_trends / analyze_dept_trends (max_year is None for a series
\* without years): the records closed during the
\* iteration carry no is_current, those closed at the end do; append order
TrendResults(closed, remaining, max_year) ==
    [i \in 1..Len(closed) |-> ResultRecord(closed[i], None)]
    \o [i \in 1..Len(remaining) |->
            ResultRecord(remaining[i], Some(IsCurrentTrend(remaining[i], max_year)))]

(***************************************************************************)
(* HistoricalAnalyzer: most wins (_count_wins_from_year_data).             *)
(***************************************************************************)
\* The companies credited a win by one year's ranking, one element per
\* credited entry (analyzer.py 301-312).
RECURSIVE CreditScan(_, _)
CreditScan(data, top_score) ==
    IF data = <<>> THEN <<>>
    ELSE LET e == Head(data)
             company == normalize_company_name(e.company)
         IN  IF company # <<>> /\ e.score # None /\ e.score = top_score
                 THEN <<company>> \o CreditScan(Tail(data), top_score)
             ELSE IF e.score # None /\ e.score # top_score
                 THEN <<>>
             ELSE CreditScan(Tail(data), top_score)

Credited(data) == IF data = <<>> THEN <<>> ELSE CreditScan(data, Head(data).score)

Occurrences(x, s) == Cardinality({i \in 1..Len(s) : s[i] = x})

\* info["years"] of a company, sorted: a year once per credited entry
RECURSIVE WinYears(_, _, _)
WinYears(company, year_data, years) ==
    IF years = <<>> THEN <<>>
    ELSE [i \in 1..Occurrences(company, Credited(year_data[Head(years)])) |-> Head(years)]
         \o WinYears(company, year_data, Tail(years))

CodePoint(c) ==
    CASE c = "sp" -> 32 [] c = "A" -> 65 [] c = "B" -> 66 [] c = "O" -> 79
      [] c = "zsp" -> 12288 [] c = "zA" -> 65313

\* _calc_most_wins / calc_item_most_wins / calc_dept_most_wins: one record
\* per credited company, sorted by (-wins, company)
MostWins(year_data) ==
    LET years == SortedYears(DOMAIN year_data)
        companies == UNION {{Credited(year_data[y])[i] : i \in 1..Len(Credited(year_data[y]))}
                            : y \in DOMAIN year_data}
        order == SetToSeq(companies)
        keyed == [i \in 1..Len(order) |->
                    LET wy == WinYears(order[i], year_data, years)
                    IN  [key |-> <<0 - Len(wy)>>
                                 \o [j \in 1..Len(order[i]) |-> CodePoint(order[i][j])],
                         val |-> [company |-> order[i],
                                  wins |-> Len(wy),
                                  years |-> wy,
                                  total_years |-> Cardinality(DOMAIN year_data)]]]
    IN  Vals(StableSort(keyed))

(***************************************************************************)
(* HistoricalAnalyzer: the state machine.  One series is analysed: the     *)
(* overall series by _calc_consecutive_wins and _calc_most_wins, or the    *)
(* series of one evaluation item by analyze_item_trends and                *)
(* calc_item_most_wins.  analyze_dept_trends and calc_dept_most_wins are   *)
(* the item methods, statement for statement, applied to self.depts:       *)
(* category "trend" stands for both.                                       *)
(***************************************************************************)
Categories == {"overall", "trend"}

\* the other sub-models at rest
TopicsIdle ==
    /\ topic_kind = "item" /\ topic_data = <<>> /\ topic_phase = "idle"
    /\ wins = <<>> /\ actual_count = 0 /\ topic = None

AnalyzerIdle ==
    /\ category = "overall" /\ series = <<>> /\ phase = "idle" /\ yearIdx = 1
    /\ company_current = <<>> /\ company_streaks = <<>>
    /\ results = <<>> /\ most_wins = <<>>

FetchIdle ==
    /\ fetch_op = "idle" /\ fault = "none" /\ page = <<>> /\ fetch_pc = "idle"
    /\ boxIdx = 1 /\ rankings = <<>> /\ seen_companies = {}
    /\ returned = None /\ raised = "none"

OverallIdle ==
    /\ subpath = FALSE /\ site = {} /\ top_page_year = None
    /\ year_range = <<>> /\ _actual_top_year = None /\ overall_pc = "idle"
    /\ futures = {} /\ year_results = <<>> /\ used_urls = <<>>

UrlIdle ==
    /\ slug_input = <<>> /\ url_op = "idle" /\ url_pc = "idle" /\ url_out = None

ResolverIdle ==
    /\ main_file = <<>>
    /\ backup_file = <<>>
    /\ identifier = <<>>
    /\ resolver_pc = "idle"
    /\ master_data = <<>>
    /\ rankings_by_id = <<>>
    /\ rankings_by_slug = <<>>
    /\ resolver_raised = <<>>
    /\ resolved = <<>>

AliasIdle ==
    /\ alias_file = <<>> /\ aliases_loaded = <<>> /\ name_input = <<>>
    /\ name_once = <<>> /\ name_twice = <<>> /\ alias_pc = "idle"

GapIdle ==
    /\ overall_scores = <<>> /\ gap_pc = "idle" /\ gap_topic = <<>>

RetryIdle ==
    /\ session_of = "idle" /\ retry_left = 0 /\ responses = <<>>
    /\ sleeps = <<>> /\ get_result = <<>>

MemoIdle ==
    /\ page_year = <<>> /\ memo_year = <<>> /\ _site_structure = <<>>
    /\ detect_calls = 0 /\ analyze_calls = 0 /\ ops = -1 /\ last_op = "idle"

ExcelIdle ==
    /\ xl_kind = "idle" /\ xl_name = <<>> /\ xl_series = <<>>
    /\ workbook = <<>> /\ parsed = <<>> /\ xl_pc = "idle"

CatIdle ==
    /\ cat_kind = "idle" /\ cat_count = 0 /\ cat_years = <<>> /\ cat_top = 0
    /\ cat_subpath = FALSE /\ cat_idx = 0 /\ year_pos = 0
    /\ consecutive_not_found = 0 /\ cat_used = <<>> /\ cat_requests = <<>>
    /\ cat_results = {} /\ cat_pc = "idle"

ValIdle ==
    /\ val_doc = <<>> /\ val_ident = <<>> /\ val_session = FALSE
    /\ val_primary = <<>> /\ val_alts = <<>> /\ val_alt_idx = 0
    /\ val_requests = <<>> /\ val_result = <<>> /\ val_pc = "idle"

MergeIdle ==
    /\ mg_kind = "idle" /\ mg_range = <<>> /\ mg_uploaded = <<>>
    /\ mg_scraped = <<>> /\ mg_merged = <<>> /\ mg_pc = "idle"

AutoIdle ==
    /\ ac_scraper = <<>> /\ ac_status = <<>> /\ ac_analyzed = <<>>
    /\ ac_fetch = <<>> /\ ac_pc = "idle"

IndexIdle ==
    /\ ix_file = <<>> /\ ix_backup = <<>> /\ ix_loader = <<>>
    /\ ix_raised = <<>> /\ ix_reloads = 0 /\ ix_pc = "idle"

WinsIdle ==
    /\ win_topic = <<>> /\ win_pc = "idle"

years == SortedYears(DOMAIN series)

AnalyzerInit ==
    /\ category \in Categories
    /\ series \in AllSeries
    /\ phase = "years"
    /\ yearIdx = 1
    /\ company_current = <<>>
    /\ company_streaks = <<>>
    /\ results = <<>>
    /\ most_wins = <<>>

SkipYearClosesStreaks ==
    /\ phase = "years"
    /\ yearIdx <= Len(years)
    /\ series[years[yearIdx]] = <<>>
    /\ yearIdx' = yearIdx + 1
    /\ company_current' = <<>>
    /\ company_streaks' =
          company_streaks \o ClosedRecords(company_current, DOMAIN company_current)
    /\ UNCHANGED <<category, series, phase, results, most_wins>>
    /\ UNCHANGED notAnalyzerVars

\* `if not self.overall[year]: continue`
SkipYear ==
    /\ phase = "years"
    /\ yearIdx <= Len(years)
    /\ series[years[yearIdx]] = <<>>
    /\ yearIdx' = yearIdx + 1
    /\ UNCHANGED <<category, series, phase, company_current, company_streaks,
                   results, most_wins>>
    /\ UNCHANGED notAnalyzerVars

\* the body of `for year in years` for a year with data
ProcessYear ==
    /\ phase = "years"
    /\ yearIdx <= Len(years)
    /\ series[years[yearIdx]] # <<>>
    /\ LET year == years[yearIdx]
           top_companies == TopCompanies(series[year])
           updated == ExtendOrStart(company_current, top_companies, year)
           closing == DOMAIN updated \ top_companies
       IN  /\ company_current' = Restrict(updated, DOMAIN updated \ closing)
           /\ company_streaks' = company_streaks \o ClosedRecords(updated, closing)
    /\ yearIdx' = yearIdx + 1
    /\ UNCHANGED <<category, series, phase, results, most_wins>>
    /\ UNCHANGED notAnalyzerVars

\* after the loop: the open streaks are closed and the records returned
CloseRemaining ==
    /\ phase = "years"
    /\ yearIdx > Len(years)
    /\ LET remaining == ClosedRecords(company_current, DOMAIN company_current)
           max_year == IF DOMAIN series = {} THEN None ELSE Some(Max(DOMAIN series))
       IN  results' = IF DOMAIN series = {} THEN <<>>
                      ELSE IF category = "overall"
                           THEN OverallResults(company_streaks \o remaining, max_year[1])
                           ELSE TrendResults(company_streaks, remaining, max_year)
    /\ phase' = "streaks_done"
    /\ UNCHANGED <<category, series, yearIdx, company_current, company_streaks,
                   most_wins>>
    /\ UNCHANGED notAnalyzerVars

\* _calc_most_wins, calc_item_most_wins, calc_dept_most_wins
CalcMostWins ==
    /\ phase = "streaks_done"
    /\ most_wins' = MostWins(series)
    /\ phase' = "done"
    /\ UNCHANGED <<category, series, yearIdx, company_current, company_streaks,
                   results>>
    /\ UNCHANGED notAnalyzerVars

AnalyzerNext == SkipYear \/ ProcessYear \/ CloseRemaining \/ CalcMostWins

InitAnalyzer == AnalyzerInit /\ TopicsIdle /\ FetchIdle /\ OverallIdle /\ UrlIdle /\ ResolverIdle /\ AliasIdle /\ GapIdle /\ RetryIdle /\ MemoIdle /\ ExcelIdle /\ CatIdle /\ ValIdle /\ MergeIdle /\ AutoIdle /\ IndexIdle /\ WinsIdle

SpecAnalyzer == InitAnalyzer /\ [][AnalyzerNext]_vars

(***************************************************************************)
(* Properties of the HistoricalAnalyzer.                                   *)
(***************************************************************************)
StreaksReturned == phase \in {"streaks_done", "done"}

Records == {results[i] : i \in 1..Len(results)}

\* the years of the series that have data
DataYears == {y \in DOMAIN series : series[y] # <<>>}

\* y1 and y2 are successive years with data
Successive(y1, y2) ==
    /\ y1 \in DataYears /\ y2 \in DataYears /\ y1 < y2
    /\ ~ \E y \in DataYears : y1 < y /\ y < y2

\* the entries of a ranking that carry the top score
TopEntries(data) ==
    {data[i] : i \in {j \in 1..Len(data) :
                        data[j].score # None /\ data[j].score = data[1].score}}

\* the co-#1 set of a ranking, by official name
CoTop(data) == {normalize_company_name(e.company) : e \in TopEntries(data)} \ {<<>>}

InList(y, r) == \E j \in 1..Len(r.years_list) : r.years_list[j] = y

Brief(r) == <<r.company, r.start_year, r.end_year, r.years>>

C1Series ==
    (BaseYear :> SoloA) @@ (BaseYear + 1 :> SoloA)
    @@ (BaseYear + 2 :> SoloB) @@ (BaseYear + 3 :> SoloA)

\* C1: a company that regains #1 after losing it starts a new streak.  For
\* {2020: A, 2021: A, 2022: B, 2023: A} the records are exactly A 2020-2021
\* (2), B 2022-2022 (1), A 2023-2023 (1); and in general no record of the
\* overall series spans a year with data in which its company was not #1.
C1_ReascensionStartsNewStreak ==
    (category = "overall" /\ StreaksReturned) =>
        /\ series = C1Series =>
            /\ Len(results) = 3
            /\ {Brief(r) : r \in Records} =
                  {<<NameA, BaseYear, BaseYear + 1, 2>>,
                   <<NameB, BaseYear + 2, BaseYear + 2, 1>>,
                   <<NameA, BaseYear + 3, BaseYear + 3, 1>>}
        /\ \A r \in Records : \A y \in DataYears :
              (r.start_year <= y /\ y <= r.end_year) => r.company \in CoTop(series[y])

C1_Witness ==
    /\ category = "overall" /\ phase = "done" /\ series = C1Series
    /\ Cardinality({r \in Records : r.company = NameA}) = 2

C2Series == (BaseYear + 1 :> TieAB) @@ (BaseYear + 2 :> SoloA)

WinsOf(company) ==
    {most_wins[i] : i \in {j \in 1..Len(most_wins) : most_wins[j].company = company}}

\* C2: for {2021: A and B tied at the top, 2022: A alone}: A and B are both
\* credited a win for 2021, A's streak runs 2021-2022 (count 2) and B's
\* streak closes at count 1 ending in 2021.
C2_TieHandling ==
    series = C2Series =>
        /\ StreaksReturned =>
              {Brief(r) : r \in Records} =
                  {<<NameA, BaseYear + 1, BaseYear + 2, 2>>,
                   <<NameB, BaseYear + 1, BaseYear + 1, 1>>}
        /\ phase = "done" =>
              /\ \E w \in WinsOf(NameA) :
                    w.wins = 2 /\ w.years = <<BaseYear + 1, BaseYear + 2>>
              /\ \E w \in WinsOf(NameB) : w.wins = 1 /\ w.years = <<BaseYear + 1>>

C2_Witness ==
    /\ series = C2Series /\ phase = "done"
    /\ \E r \in Records : r.company = NameB /\ r.end_year = BaseYear + 1
    /\ WinsOf(NameB) # {}

\* C3: a year that is absent or carries no ranking never breaks a streak:
\* wins in successive years with data belong to one record, a record's count
\* is the number of years with data from its start to its end, and a record
\* ends either at the last year with data or before a year with data in
\* which its company is not in the co-#1 set.
C3_GapsDoNotBreakStreaks ==
    StreaksReturned =>
        /\ \A y1, y2 \in DataYears :
              Successive(y1, y2) =>
                 \A c \in CoTop(series[y1]) \cap CoTop(series[y2]) :
                    \E r \in Records : r.company = c /\ InList(y1, r) /\ InList(y2, r)
        /\ \A r \in Records :
              LET run == {y \in DataYears : r.start_year <= y /\ y <= r.end_year}
              IN  /\ r.years = Cardinality(run)
                  /\ \A y \in run : InList(y, r)
                  /\ \/ r.end_year = Max(DataYears)
                     \/ \E y2 \in DataYears :
                           Successive(r.end_year, y2) /\ r.company \notin CoTop(series[y2])

\* a returned streak that runs over an absent year and over an empty year
C3_Witness ==
    /\ StreaksReturned
    /\ \E r \in Records :
          /\ \E y \in Years : r.start_year < y /\ y < r.end_year /\ y \notin DOMAIN series
          /\ \E y \in DOMAIN series :
                r.start_year < y /\ y < r.end_year /\ series[y] = <<>>

\* C4: for every category and every company, the most-wins total is at most
\* the number of years of the series that have data.
C4_WinsAtMostYearsWithData ==
    phase = "done" =>
        \A i \in 1..Len(most_wins) : most_wins[i].wins <= Cardinality(DataYears)

\* the sum of the counts of the company's streak records results[1..n]
RECURSIVE StreakTotal(_, _)
StreakTotal(company, n) ==
    IF n = 0 THEN 0
    ELSE StreakTotal(company, n - 1)
         + (IF results[n].company = company THEN results[n].years ELSE 0)

\* the company's wins in the most-wins result, 0 when it has no entry
WinsTotal(company) ==
    IF WinsOf(company) = {} THEN 0 ELSE (CHOOSE w \in WinsOf(company) : TRUE).wins

\* C22: for every overall series and every company the streak records
\* partition the winning years: each record's count is the length of its
\* years_list, start_year and end_year are the first and last element of
\* years_list, no year occurs in two records of the same company, and the
\* counts of the company's records add up to its wins in the most-wins result.
C22_StreaksPartitionWins ==
    (category = "overall" /\ phase = "done") =>
        /\ \A r \in Records :
              /\ r.years = Len(r.years_list)
              /\ r.start_year = r.years_list[1]
              /\ r.end_year = r.years_list[Len(r.years_list)]
        /\ \A i, j \in 1..Len(results) :
              (i # j /\ results[i].company = results[j].company) =>
                  \A y \in Years : ~(InList(y, results[i]) /\ InList(y, results[j]))
        /\ \A c \in {r.company : r \in Records}
                    \cup {most_wins[i].company : i \in 1..Len(most_wins)} :
              StreakTotal(c, Len(results)) = WinsTotal(c)

\* C5: names are normalized before grouping: #1 results of successive years
\* under different names that the alias table maps to one official name make
\* one streak, recorded under the official name, counting all those wins.
C5_RenamedCompaniesMerge ==
    StreaksReturned =>
        /\ \A r \in Records : r.company \notin DOMAIN COMPANY_ALIASES
        /\ \A y1, y2 \in DataYears :
              Successive(y1, y2) =>
                 \A e1 \in TopEntries(series[y1]), e2 \in TopEntries(series[y2]) :
                    (/\ e1.company # e2.company
                     /\ e1.company \in DOMAIN COMPANY_ALIASES
                     /\ COMPANY_ALIASES[e1.company] = e2.company)
                    => \E r \in Records :
                          /\ r.company = e2.company
                          /\ InList(y1, r) /\ InList(y2, r)
                          /\ r.years = Len(r.years_list)
                          /\ r.years >= 2

\* the old name is #1 in one year, the official name in the next year with
\* data, and one record of the official name holds both years
C5_Witness ==
    /\ StreaksReturned
    /\ \E y1, y2 \in DataYears :
          /\ Successive(y1, y2)
          /\ series[y1] = OldThenB /\ series[y2] = SoloA
          /\ \E r \in Records : r.company = NameA /\ InList(y1, r) /\ InList(y2, r)

\* C6: every streak still open when the iteration over the years ends is
\* returned with is_current = true.
C6_OpenStreaksAreCurrent ==
    StreaksReturned =>
        \A c \in DOMAIN company_current :
            \E r \in Records :
                /\ r.company = c
                /\ r.start_year = company_current[c].start
                /\ r.is_current = Some(TRUE)

(***************************************************************************)
(* TopicsAnalyzer: _analyze_item_dominance and _analyze_dept_dominance.    *)
(* A category's year_data is a dict year -> ranking, or (items only, the   *)
(* old format) a bare ranking.                                             *)
(***************************************************************************)
DictData(year_series) == [is_dict |-> TRUE, data |-> year_series]
ListData(ranking) == [is_dict |-> FALSE, data |-> ranking]

LastYear == BaseYear + MaxYears - 1

TopicYearData ==
    {DictData(<<>>)}
    \cup {DictData(LastYear :> r) : r \in SampleRankings \cup {NoRanking}}
    \cup {DictData((LastYear - 1 :> SoloB) @@ (LastYear :> TieAB)),
          DictData((LastYear - 1 :> TieAB) @@ (LastYear :> SoloB))}
    \cup {ListData(TieAB), ListData(NoRanking)}

NumCategories == 3

\* the ranking a category contributes: that of its latest year, the bare
\* list in the old format; None when the category is passed over
LatestData(year_data, skip_lists) ==
    IF year_data.is_dict
    THEN IF DOMAIN year_data.data # {}
         THEN Some(year_data.data[Max(DOMAIN year_data.data)])
         ELSE None
    ELSE IF skip_lists THEN None ELSE Some(year_data.data)

\* the companies one category credits with a win (analyzer.py 986-988,
\* 1277-1279): the first-listed entry, if it has a name
CreditedByCategory(data) ==
    IF data[1].company # <<>> THEN {data[1].company} ELSE {}

\* the loop over the categories: [wins, actual]
RECURSIVE CountDominance(_, _, _)
CountDominance(categories, skip_lists, acc) ==
    IF categories = <<>> THEN acc
    ELSE LET latest == LatestData(Head(categories), skip_lists)
             rest == Tail(categories)
         IN  IF latest = None \/ latest[1] = <<>>
             THEN CountDominance(rest, skip_lists, acc)
             ELSE LET credited == CreditedByCategory(latest[1])
                      w == [c \in DOMAIN acc.wins \cup credited |->
                               (IF c \in DOMAIN acc.wins THEN acc.wins[c] ELSE 0)
                               + (IF c \in credited THEN 1 ELSE 0)]
                  IN  CountDominance(rest, skip_lists,
                                     [wins |-> w, actual |-> acc.actual + 1])

\* the topic returned for the counted wins: `count >= actual * 0.6` is
\* "dominance", else `count >= 3` is "multiple", else None
DominanceTopic(w, actual) ==
    IF DOMAIN w = {} \/ actual = 0 THEN None
    ELSE LET count == Max({w[c] : c \in DOMAIN w})
         IN  IF 10 * count >= 6 * actual THEN Some([kind |-> "dominance", count |-> count, of |-> actual])
             ELSE IF count >= 3 THEN Some([kind |-> "multiple", count |-> count, of |-> actual])
             ELSE None

TopicsInit ==
    /\ topic_kind \in {"item", "dept"}
    /\ topic_data \in [1..NumCategories -> TopicYearData]
    /\ topic_phase = "ready"
    /\ wins = <<>>
    /\ actual_count = 0
    /\ topic = None

AnalyzeItemDominance ==
    /\ topic_phase = "ready"
    /\ topic_kind = "item"
    /\ LET counted == CountDominance(topic_data, FALSE, [wins |-> <<>>, actual |-> 0])
       IN  /\ wins' = counted.wins
           /\ actual_count' = counted.actual
           /\ topic' = DominanceTopic(counted.wins, counted.actual)
    /\ topic_phase' = "done"
    /\ UNCHANGED <<topic_kind, topic_data>>
    /\ UNCHANGED notTopicsVars

AnalyzeDeptDominance ==
    /\ topic_phase = "ready"
    /\ topic_kind = "dept"
    /\ LET counted == CountDominance(topic_data, TRUE, [wins |-> <<>>, actual |-> 0])
       IN  /\ wins' = counted.wins
           /\ actual_count' = counted.actual
           /\ topic' = DominanceTopic(counted.wins, counted.actual)
    /\ topic_phase' = "done"
    /\ UNCHANGED <<topic_kind, topic_data>>
    /\ UNCHANGED notTopicsVars

TopicsNext == AnalyzeItemDominance \/ AnalyzeDeptDominance

InitTopics == TopicsInit /\ AnalyzerIdle /\ FetchIdle /\ OverallIdle /\ UrlIdle /\ ResolverIdle /\ AliasIdle /\ GapIdle /\ RetryIdle /\ MemoIdle /\ ExcelIdle /\ CatIdle /\ ValIdle /\ MergeIdle /\ AutoIdle /\ IndexIdle /\ WinsIdle

SpecTopics == InitTopics /\ [][TopicsNext]_vars

\* the categories that contribute a ranking, with that ranking
ContributingData ==
    {LatestData(topic_data[i], topic_kind = "dept")[1] :
        i \in {j \in 1..Len(topic_data) :
                 /\ LatestData(topic_data[j], topic_kind = "dept") # None
                 /\ LatestData(topic_data[j], topic_kind = "dept")[1] # <<>>}}

\* C7: in the item and department dominance counts every company whose
\* score equals the top score of a category's latest-year ranking is
\* credited a win for that category, not only the first-listed entry.
C7_TiedCompaniesAllCredited ==
    topic_phase = "done" =>
        \A data \in ContributingData : \A e \in TopEntries(data) :
            e.company # <<>> => e.company \in DOMAIN wins

(***************************************************************************)
(* One page request: OriconScraper._fetch_ranking_page,                    *)
(* _discover_departments, _discover_evaluation_items and                   *)
(* SiteStructureAnalyzer.analyze.                                          *)
(*                                                                         *)
(* Exceptions are class names.  session.get throws Timeout or              *)
(* ConnectionError, raise_for_status throws HTTPError (all three are       *)
(* requests.exceptions.RequestException), and the parse of a malformed     *)
(* page throws AttributeError.  An except clause catches an exception      *)
(* when the exception is an instance of the clause's class.                *)
(***************************************************************************)
ExceptionParent ==
    [c \in {"Timeout", "ConnectionError", "HTTPError", "RequestException",
            "AttributeError", "FileNotFoundError", "OSError", "JSONDecodeError",
            "ValueError", "KeyError", "LookupError"} |->
        IF c \in {"Timeout", "ConnectionError", "HTTPError"} THEN "RequestException"
        ELSE IF c = "FileNotFoundError" THEN "OSError"
        ELSE IF c = "JSONDecodeError" THEN "ValueError"
        ELSE IF c = "KeyError" THEN "LookupError"
        ELSE "Exception"]

RECURSIVE IsInstance(_, _)
IsInstance(exc, class) ==
    \/ exc = class
    \/ exc \in DOMAIN ExceptionParent /\ IsInstance(ExceptionParent[exc], class)

Faults == {"none", "Timeout", "ConnectionError", "HTTPError", "AttributeError"}

\* the except clauses of a try statement, in order
OnlyRequestExceptionHandlers == <<"RequestException">>
FetchRankingPageHandlers == <<"Exception">>
BoxHandlers == <<"Exception">>
DiscoverDepartmentsHandlers == <<"RequestException", "Exception">>
DiscoverEvaluationItemsHandlers == <<"Exception">>
AnalyzeHandlers == <<"RequestException", "Exception">>

Caught(handlers, exc) ==
    \E i \in 1..Len(handlers) : IsInstance(exc, handlers[i])

\* the clause that handles exc: the first one that matches
Handler(handlers, exc) ==
    handlers[Min({i \in 1..Len(handlers) : IsInstance(exc, handlers[i])})]

(***************************************************************************)
(* A ranking box of the page: the rank its icon shows, the text of its     *)
(* name element, the score it shows; a broken box makes                    *)
(* _extract_ranking_data throw.  A li of the old ul.rankin layout has a    *)
(* rank and a name only.                                                   *)
(***************************************************************************)
Box(rank, text, score) ==
    [raises |-> FALSE, rank |-> rank, text |-> text, score |-> score]
BrokenBox == [raises |-> TRUE, rank |-> None, text |-> <<>>, score |-> None]

BoxPalette ==
    { Box(Some(1), NameA, Some(100)),
      Box(Some(2), <<"A", "zsp", "sp">>, Some(90)),
      Box(Some(1), NameB, Some(90)),
      Box(Some(2), NameB, Some(100)),
      Box(Some(2), NameB, None),
      Box(None, NameA, Some(100)),
      Box(Some(101), NameB, Some(90)),
      Box(Some(1), <<>>, Some(100)),
      BrokenBox }

LegacyPalette ==
    { Box(Some(1), NameA, None),
      Box(Some(2), NameA, None),
      Box(Some(1), NameB, None),
      Box(None, NameB, None),
      BrokenBox }

MaxBoxes == 3

SeqsUpTo(S, n) == UNION {[1..k -> S] : k \in 0..n}

EmptyPage == [boxes |-> <<>>, legacy |-> <<>>, links |-> {}, sort_nav |-> "absent"]

\* pages of at most MaxBoxes elements
RankingPages ==
    UNION {{[EmptyPage EXCEPT !.boxes = b, !.legacy = l] :
                b \in [1..k -> BoxPalette],
                l \in SeqsUpTo(LegacyPalette, MaxBoxes - k)} : k \in 0..MaxBoxes}

\* pages of a discoverer: the links that pass its filters
LinkPages == {[EmptyPage EXCEPT !.links = L] : L \in SUBSET {"link1", "link2"}}

\* pages of analyze: no sort-nav, a sort-nav without table, or a table
\* with evaluation-item links
StructurePages ==
    {[EmptyPage EXCEPT !.sort_nav = n] : n \in {"absent", "no_table"}}
    \cup {[EmptyPage EXCEPT !.sort_nav = "table", !.links = L] :
             L \in SUBSET {"link1", "link2"}}

\* scraper.py 1900-2015: None, or the entry of the box
_extract_ranking_data(element) ==
    IF element.rank = None \/ element.rank[1] < 1 \/ element.rank[1] > 100
    THEN None
    ELSE LET company == Strip(CollapseSpaces(Strip(element.text)))
         IN  IF company = <<>> THEN None
             ELSE Some(Entry(element.rank, company,
                             IF element.score # None /\ element.score[1] # 0
                             THEN element.score ELSE None))

UnseenAlways(company, seen) == TRUE

\* scraper.py 1855: company not in seen_companies
Unseen(company, seen) == company \notin seen

\* scraper.py 1867-1889: the li elements of ul.rankin, from current
\* <<rankings, seen_companies>>
RECURSIVE LegacyScan(_, _, _)
LegacyScan(lis, rks, seen) ==
    IF lis = <<>> THEN rks
    ELSE LET li == Head(lis)
             company == Strip(li.text)
         IN  IF /\ ~li.raises
                /\ li.rank # None /\ li.rank[1] # 0
                /\ company # <<>>
                /\ Unseen(company, seen)
             THEN LegacyScan(Tail(lis), Append(rks, Entry(li.rank, company, None)),
                             seen \cup {company})
             ELSE LegacyScan(Tail(lis), rks, seen)

\* scraper.py 1892: key (rank, -(score or 0))
RankingSortKey(x) ==
    << IF x.rank # None THEN x.rank[1] ELSE 999,
       -(IF x.score # None THEN x.score[1] ELSE 0) >>

SortRankings(rks) ==
    Vals(StableSort([i \in 1..Len(rks) |->
                        [key |-> RankingSortKey(rks[i]), val |-> rks[i]]]))

(***************************************************************************)
(* SiteStructure and StructureValidator (site_analyzer.py).                *)
(***************************************************************************)
MAX_EVALUATION_ITEMS == 20

SiteStructure ==
    [evaluation_items |-> {}, errors |-> <<>>, warnings |-> <<>>,
     is_valid |-> TRUE, validation_status |-> "unverified"]

\* StructureValidator.validate
validate(structure) ==
    IF structure.errors # <<>>
    THEN [structure EXCEPT !.is_valid = FALSE, !.validation_status = "errors"]
    ELSE LET warned ==
                 IF Cardinality(structure.evaluation_items) > MAX_EVALUATION_ITEMS
                 THEN Append(structure.warnings, "too many evaluation items")
                 ELSE structure.warnings
         IN  [structure EXCEPT !.is_valid = TRUE,
                               !.warnings = warned,
                               !.validation_status =
                                   IF warned # <<>> THEN "warnings" ELSE "OK"]

FetchOps == {"_fetch_ranking_page", "_discover_departments",
             "_discover_evaluation_items", "analyze"}

PagesOf(op) ==
    CASE op = "_fetch_ranking_page" -> RankingPages
      [] op = "analyze" -> StructurePages
      [] OTHER -> LinkPages

\* a request that fails delivers no page
FetchInit ==
    /\ fetch_op \in FetchOps
    /\ fault \in Faults
    /\ page \in IF fault = "none" THEN PagesOf(fetch_op) ELSE {EmptyPage}
    /\ fetch_pc = "request"
    /\ boxIdx = 1 /\ rankings = <<>> /\ seen_companies = {}
    /\ returned = None /\ raised = "none"

\* an exception leaves the method's try statement: the value of the
\* matching except clause is returned, or the exception reaches the caller
Leave(handlers, exc, value) ==
    /\ fetch_pc' = "done"
    /\ IF Caught(handlers, exc)
       THEN returned' = Some(value) /\ raised' = "none"
       ELSE returned' = None /\ raised' = exc

\* scraper.py 1810-1812: session.get, raise_for_status, BeautifulSoup
RequestRankingPage ==
    /\ fetch_op = "_fetch_ranking_page" /\ fetch_pc = "request"
    /\ IF fault # "none"
       THEN Leave(FetchRankingPageHandlers, fault, <<>>)
       ELSE fetch_pc' = "boxes" /\ UNCHANGED <<returned, raised>>
    /\ UNCHANGED <<fetch_op, fault, page, boxIdx, rankings, seen_companies>>
    /\ UNCHANGED notFetchVars

\* scraper.py 1849-1859: one turn of the loop over ranking_boxes
ExtractBox ==
    /\ fetch_op = "_fetch_ranking_page" /\ fetch_pc = "boxes"
    /\ boxIdx <= Len(page.boxes)
    /\ LET box == page.boxes[boxIdx]
           data == _extract_ranking_data(box)
       IN  IF box.raises /\ ~Caught(BoxHandlers, "AttributeError")
           THEN /\ Leave(FetchRankingPageHandlers, "AttributeError", <<>>)
                /\ UNCHANGED <<boxIdx, rankings, seen_companies>>
           ELSE /\ boxIdx' = boxIdx + 1
                /\ IF ~box.raises /\ data # None
                      /\ Unseen(data[1].company, seen_companies)
                   THEN /\ rankings' = Append(rankings, data[1])
                        /\ seen_companies' = seen_companies \cup {data[1].company}
                   ELSE UNCHANGED <<rankings, seen_companies>>
                /\ UNCHANGED <<fetch_pc, returned, raised>>
    /\ UNCHANGED <<fetch_op, fault, page>>
    /\ UNCHANGED notFetchVars

\* scraper.py 1861-1894: the ul.rankin fallback, the sort, the return
ReturnRankings ==
    /\ fetch_op = "_fetch_ranking_page" /\ fetch_pc = "boxes"
    /\ boxIdx > Len(page.boxes)
    /\ rankings' = IF rankings = <<>>
                   THEN LegacyScan(page.legacy, rankings, seen_companies)
                   ELSE rankings
    /\ seen_companies' = seen_companies
                         \cup {rankings'[i].company : i \in 1..Len(rankings')}
    /\ returned' = Some(SortRankings(rankings'))
    /\ fetch_pc' = "done"
    /\ UNCHANGED <<fetch_op, fault, page, boxIdx, raised>>
    /\ UNCHANGED notFetchVars

\* scraper.py 1150-1235
DiscoverDepartments ==
    /\ fetch_op = "_discover_departments" /\ fetch_pc = "request"
    /\ IF fault # "none"
       THEN Leave(DiscoverDepartmentsHandlers, fault, <<>>)
       ELSE /\ returned' = Some([l \in page.links |-> l])
            /\ fetch_pc' = "done" /\ UNCHANGED raised
    /\ UNCHANGED <<fetch_op, fault, page, boxIdx, rankings, seen_companies>>
    /\ UNCHANGED notFetchVars

\* scraper.py 1430-1487
DiscoverEvaluationItems ==
    /\ fetch_op = "_discover_evaluation_items" /\ fetch_pc = "request"
    /\ IF fault # "none"
       THEN Leave(DiscoverEvaluationItemsHandlers, fault, <<>>)
       ELSE /\ returned' = Some([l \in page.links |-> l])
            /\ fetch_pc' = "done" /\ UNCHANGED raised
    /\ UNCHANGED <<fetch_op, fault, page, boxIdx, rankings, seen_companies>>
    /\ UNCHANGED notFetchVars

\* site_analyzer.py 302-357: the error an except clause records
ErrorRecord(clause, exc) ==
    [kind |-> IF clause = "RequestException" THEN "HTTP error" ELSE "analysis error",
     exception |-> exc]

Analyze ==
    /\ fetch_op = "analyze" /\ fetch_pc = "request"
    /\ fetch_pc' = "done"
    /\ IF fault # "none"
       THEN IF Caught(AnalyzeHandlers, fault)
            THEN /\ returned' = Some(validate(
                        [SiteStructure EXCEPT !.errors =
                            <<ErrorRecord(Handler(AnalyzeHandlers, fault), fault)>>]))
                 /\ UNCHANGED raised
            ELSE returned' = None /\ raised' = fault
       ELSE /\ UNCHANGED raised
            /\ returned' = Some(
                 CASE page.sort_nav = "absent" ->
                        [SiteStructure EXCEPT !.warnings = <<"no sort-nav">>]
                   [] page.sort_nav = "no_table" ->
                        validate([SiteStructure EXCEPT
                                     !.warnings = <<"no table in sort-nav">>])
                   [] OTHER ->
                        validate([SiteStructure EXCEPT
                                     !.evaluation_items = page.links]))
    /\ UNCHANGED <<fetch_op, fault, page, boxIdx, rankings, seen_companies>>
    /\ UNCHANGED notFetchVars

FetchNext ==
    \/ RequestRankingPage \/ ExtractBox \/ ReturnRankings
    \/ DiscoverDepartments \/ DiscoverEvaluationItems \/ Analyze

InitFetch == FetchInit /\ AnalyzerIdle /\ TopicsIdle /\ OverallIdle /\ UrlIdle /\ ResolverIdle /\ AliasIdle /\ GapIdle /\ RetryIdle /\ MemoIdle /\ ExcelIdle /\ CatIdle /\ ValIdle /\ MergeIdle /\ AutoIdle /\ IndexIdle /\ WinsIdle

SpecFetch == InitFetch /\ [][FetchNext]_vars

\* ---- helpers of the claims about one page request ----
RankingPageDone ==
    fetch_op = "_fetch_ranking_page" /\ fetch_pc = "done"

\* the entries the page's elements yield, in page order: those of the
\* ranking boxes, or of the old layout's list when no box yields one
BoxEntries ==
    LET valid == {i \in 1..Len(page.boxes) :
                     /\ ~page.boxes[i].raises
                     /\ _extract_ranking_data(page.boxes[i]) # None}
    IN  [k \in 1..Cardinality(valid) |->
            _extract_ranking_data(page.boxes[SetToSeq(valid)[k]])[1]]

LegacyEntries ==
    LET valid == {i \in 1..Len(page.legacy) :
                     /\ ~page.legacy[i].raises
                     /\ page.legacy[i].rank \notin {None, Some(0)}
                     /\ Strip(page.legacy[i].text) # <<>>}
    IN  [k \in 1..Cardinality(valid) |->
            LET li == page.legacy[SetToSeq(valid)[k]]
            IN  Entry(li.rank, Strip(li.text), None)]

PageEntries == IF BoxEntries # <<>> THEN BoxEntries ELSE LegacyEntries

ScoreOrZero(x) == IF x.score # None THEN x.score[1] ELSE 0

\* C8: no scraping or structure-analysis method lets an exception reach
\* its caller.  After a network or parse failure _fetch_ranking_page has
\* returned the empty list, _discover_departments and
\* _discover_evaluation_items the empty mapping, and analyze a structure
\* whose errors name the failure; a ranking box whose extraction throws is
\* skipped and every other box that yields an entry has its company in
\* the returned list.
C8_FailuresNeverRaise ==
    /\ raised = "none"
    /\ fetch_pc = "done" =>
        /\ returned # None
        /\ fault # "none" =>
             IF fetch_op = "analyze"
             THEN /\ \E i \in 1..Len(returned[1].errors) :
                         returned[1].errors[i].exception = fault
                  /\ ~returned[1].is_valid
             ELSE returned[1] = <<>>
        /\ (fetch_op = "_fetch_ranking_page" /\ fault = "none") =>
             \A i \in 1..Len(page.boxes) :
                 (~page.boxes[i].raises
                    /\ _extract_ranking_data(page.boxes[i]) # None) =>
                 \E k \in 1..Len(returned[1]) :
                     returned[1][k].company =
                         _extract_ranking_data(page.boxes[i])[1].company

\* a page with a broken box and a good one has been fetched
C8_Witness ==
    /\ RankingPageDone /\ fault = "none"
    /\ \E i \in 1..Len(page.boxes) : page.boxes[i].raises
    /\ returned # None /\ returned[1] # <<>>

\* C9: the list _fetch_ranking_page returns names no company twice, the
\* entry kept for a company is the one of the first page element that
\* yields that company, and the list is ordered by rank ascending, then
\* by score descending.
C9_DedupedAndSorted ==
    (RankingPageDone /\ returned # None) =>
        LET r == returned[1]
        IN  /\ \A i, j \in 1..Len(r) : i # j => r[i].company # r[j].company
            /\ \A k \in 1..Len(r) :
                   LET first == Min({i \in 1..Len(PageEntries) :
                                        PageEntries[i].company = r[k].company})
                   IN  r[k] = PageEntries[first]
            /\ \A i, j \in 1..Len(r) : i < j =>
                   \/ r[i].rank[1] < r[j].rank[1]
                   \/ /\ r[i].rank[1] = r[j].rank[1]
                      /\ ScoreOrZero(r[i]) >= ScoreOrZero(r[j])

\* two elements of the page name one company with different data, and
\* the page order of the kept entries is not the returned order
C9_Witness ==
    /\ RankingPageDone /\ returned # None
    /\ \E i, j \in 1..Len(PageEntries) :
           /\ i < j
           /\ PageEntries[i].company = PageEntries[j].company
           /\ PageEntries[i] # PageEntries[j]
    /\ Len(returned[1]) >= 2
    /\ returned[1][1] # PageEntries[1]

(***************************************************************************)
(* OriconScraper.get_overall_rankings.  A page is named by its URL shape   *)
(* and year:                                                               *)
(*   top      /prefix[/subpath]/                                           *)
(*   year     /prefix[/subpath]/Y/                                         *)
(*   alt      /prefix/Y/subpath/          (only with a subpath)            *)
(*   parent   /prefix/Y/                  (only with a subpath)            *)
(*   special  /prefix/Y-(Y+1)[/subpath]/                                   *)
(* site is the set of URLs for which _fetch_ranking_page returns a         *)
(* non-empty list; the list returned for a URL is represented by the URL.  *)
(* Keys of the result are <<Y>> for "Y" and <<Y, Y+1>> for "Y-(Y+1)".      *)
(***************************************************************************)
NumFetchYears == 2

start_year == year_range[1]
end_year == year_range[2]

Url(kind, year) == [kind |-> kind, year |-> year]
top_url == Url("top", 0)

FetchYears == BaseYear..(BaseYear + NumFetchYears - 1)

UrlsOf(sub) ==
    {top_url}
    \cup {Url(k, y) : k \in IF sub THEN {"year", "alt", "parent", "special"}
                            ELSE {"year", "special"},
                      y \in FetchYears}

\* the list _fetch_ranking_page returns for url: None stands for []
FetchPage(url) == IF url \in site THEN Some(url) ELSE None

\* range(end_year, start_year - 1, -1)
years_to_fetch == [i \in 1..(end_year - start_year + 1) |-> end_year + 1 - i]

max_workers == Min({5, Len(years_to_fetch)})

UrlInfo(key, url, status) == [year |-> key, url |-> url, status |-> status]

\* scraper.py 774-829: <<year, data, url_info>>
_fetch_year_data(year, actual_top_year) ==
    IF year > actual_top_year
    THEN <<year, None, UrlInfo(<<year>>, None, "not_published")>>
    ELSE
    LET url == IF year = actual_top_year THEN top_url ELSE Url("year", year)
        alt_url == Url("alt", year)
        parent_url == Url("parent", year)
        special_url == Url("special", year)
    IN  IF FetchPage(url) # None
            THEN <<year, FetchPage(url), UrlInfo(<<year>>, Some(url), "success")>>
        ELSE IF subpath /\ FetchPage(alt_url) # None
            THEN <<year, FetchPage(alt_url),
                   UrlInfo(<<year>>, Some(alt_url), "success")>>
        ELSE IF subpath /\ FetchPage(parent_url) # None
            THEN <<year, FetchPage(parent_url),
                   UrlInfo(<<year>>, Some(parent_url), "success")>>
        ELSE IF FetchPage(special_url) # None
            THEN <<year + 1, FetchPage(special_url),
                   UrlInfo(<<year + 1>>, Some(special_url), "success")>>
        ELSE <<year, None, UrlInfo(<<year>>, Some(url), "not_found")>>

\* results[key] = data
Store(res, key, data) ==
    [k \in DOMAIN res \cup {key} |-> IF k = key THEN data ELSE res[k]]

\* scraper.py 874-880: the main thread consumes one future
Consume(res, year, actual_top_year) ==
    LET r == _fetch_year_data(year, actual_top_year)
    IN  IF r[2] # None THEN Store(res, <<r[1]>>, r[2][1]) ELSE res

OverallInit ==
    /\ subpath \in BOOLEAN
    /\ site \in SUBSET UrlsOf(subpath)
    /\ year_range = <<BaseYear, BaseYear + NumFetchYears - 1>>
    /\ top_page_year \in {None} \cup {Some(y) : y \in (year_range[2] - 1)..(year_range[2] + 1)}
    /\ _actual_top_year = None
    /\ overall_pc = "start"
    /\ futures = {} /\ year_results = <<>> /\ used_urls = <<>>

\* scraper.py 840-872: detect the top page's year, submit one future a year
SubmitYears ==
    /\ overall_pc = "start"
    /\ _actual_top_year' = IF top_page_year # None THEN top_page_year
                           ELSE Some(end_year)
    /\ futures' = {years_to_fetch[i] : i \in 1..Len(years_to_fetch)}
    /\ overall_pc' = "as_completed"
    /\ UNCHANGED <<subpath, site, top_page_year, year_range, year_results, used_urls>>
    /\ UNCHANGED notOverallVars

\* the pool runs max_workers workers at a time, in submission order
Started(year) ==
    LET position == CHOOSE i \in 1..Len(years_to_fetch) : years_to_fetch[i] = year
    IN  position <= max_workers + (Len(years_to_fetch) - Cardinality(futures))

\* scraper.py 874-880: the next future of as_completed, whichever worker
\* finishes first
FutureCompletes(year) ==
    /\ overall_pc = "as_completed"
    /\ year \in futures /\ Started(year)
    /\ used_urls' = Append(used_urls, _fetch_year_data(year, _actual_top_year[1])[3])
    /\ year_results' = Consume(year_results, year, _actual_top_year[1])
    /\ futures' = futures \ {year}
    /\ UNCHANGED <<subpath, site, top_page_year, year_range, _actual_top_year,
                   overall_pc>>
    /\ UNCHANGED notOverallVars

\* scraper.py 883-901: the Y-(Y+1) pages, from year down to start_year;
\* <<results, used_urls>>
RECURSIVE SpecialYears(_, _, _)
SpecialYears(year, res, urls) ==
    IF year < start_year THEN <<res, urls>>
    ELSE LET key == <<year, year + 1>>
             special_url == Url("special", year)
         IN  IF key \notin DOMAIN res /\ FetchPage(special_url) # None
             THEN SpecialYears(year - 1, Store(res, key, special_url),
                               Append(urls, UrlInfo(key, Some(special_url), "success")))
             ELSE SpecialYears(year - 1, res, urls)

ReturnOverall ==
    /\ overall_pc = "as_completed" /\ futures = {}
    /\ year_results' = SpecialYears(end_year - 1, year_results, used_urls)[1]
    /\ used_urls' = SpecialYears(end_year - 1, year_results, used_urls)[2]
    /\ overall_pc' = "done"
    /\ UNCHANGED <<subpath, site, top_page_year, year_range, _actual_top_year,
                   futures>>
    /\ UNCHANGED notOverallVars

OverallNext ==
    \/ SubmitYears
    \/ \E year \in FetchYears : FutureCompletes(year)
    \/ ReturnOverall

InitOverall == OverallInit /\ AnalyzerIdle /\ TopicsIdle /\ FetchIdle /\ UrlIdle /\ ResolverIdle /\ AliasIdle /\ GapIdle /\ RetryIdle /\ MemoIdle /\ ExcelIdle /\ CatIdle /\ ValIdle /\ MergeIdle /\ AutoIdle /\ IndexIdle /\ WinsIdle

SpecOverall == InitOverall /\ [][OverallNext]_vars

\* the mapping returned when the futures complete in submission order
RECURSIVE ConsumeInOrder(_, _)
ConsumeInOrder(order, res) ==
    IF order = <<>> THEN res
    ELSE ConsumeInOrder(Tail(order), Consume(res, Head(order), _actual_top_year[1]))

ResultsInSubmissionOrder ==
    SpecialYears(end_year - 1, ConsumeInOrder(years_to_fetch, <<>>), <<>>)[1]

\* C10: the year-to-entries mapping get_overall_rankings returns does not
\* depend on the order in which the year workers complete: whatever the
\* order, it is the mapping obtained when they complete in the order they
\* were submitted.
C10_ResultIndependentOfCompletionOrder ==
    overall_pc = "done" => year_results = ResultsInSubmissionOrder

(***************************************************************************)
(* URL construction (scraper.py, src/scraping/url_resolver.py).            *)
(*                                                                         *)
(* A slug is the sequence of its words and separators: "moving-company"    *)
(* is <<"moving", "-", "company">>, "_move" is <<"_", "move">>,            *)
(* "card-loan/nonbank@type02" is <<"card", "-", "loan", "/", "nonbank",    *)
(* "@", "type02">>.  str.startswith and str.split act on these sequences.  *)
(* The URL "https://D.oricon.co.jp/P/" is [domain |-> D, path |-> P].      *)
(***************************************************************************)
StartsWith(s, p) == Len(p) <= Len(s) /\ SubSeq(s, 1, Len(p)) = p

Contains(s, c) == \E i \in 1..Len(s) : s[i] = c

IndexOf(s, c) == Min({i \in 1..Len(s) : s[i] = c})

\* s.split(c)[0]
BeforeFirst(s, c) == IF Contains(s, c) THEN SubSeq(s, 1, IndexOf(s, c) - 1) ELSE s

\* s.split(c, 1)[1], for s that contains c
AfterFirst(s, c) == SubSeq(s, IndexOf(s, c) + 1, Len(s))

\* s.split(c)
RECURSIVE SplitBy(_, _)
SplitBy(s, c) ==
    IF Contains(s, c) THEN <<BeforeFirst(s, c)>> \o SplitBy(AfterFirst(s, c), c)
    ELSE <<s>>

\* c.join(parts)
RECURSIVE Join(_, _)
Join(parts, c) ==
    IF parts = <<>> THEN <<>>
    ELSE IF Len(parts) = 1 THEN parts[1]
    ELSE parts[1] \o <<c>> \o Join(Tail(parts), c)

\* s.replace("rank" + from, "rank" + to)
RECURSIVE ReplaceRankSeparator(_, _, _)
ReplaceRankSeparator(s, from, to) ==
    IF Len(s) < 2 THEN s
    ELSE IF s[1] = "rank" /\ s[2] = from
         THEN <<"rank", to>> \o ReplaceRankSeparator(SubSeq(s, 3, Len(s)), from, to)
         ELSE <<s[1]>> \o ReplaceRankSeparator(Tail(s), from, to)

WebUrl(domain, path) == [domain |-> domain, path |-> path]

\* OriconScraper.SUBDOMAIN_MAP, in dict order: <<pattern, subdomain>>
SUBDOMAIN_MAP ==
    << <<<<"online", "-", "english">>, "juken">>,
       <<<<"kids", "-", "english">>, "juken">>,
       <<<<"_", "english">>, "juken">>,
       <<<<"_", "college">>, "juken">>,
       <<<<"college", "-", "individual">>, "juken">>,
       <<<<"college", "-", "video">>, "juken">>,
       <<<<"highschool">>, "juken">>,
       <<<<"highschool", "-", "individual">>, "juken">>,
       <<<<"_", "junior">>, "juken">>,
       <<<<"public", "-", "junior">>, "juken">>,
       <<<<"supplementary", "-", "school">>, "juken">>,
       <<<<"kids", "-", "school">>, "juken">>,
       <<<<"online", "-", "study">>, "juken">>,
       <<<<"tutor">>, "juken">>,
       <<<<"cc">>, "juken">>,
       <<<<"license">>, "juken">>,
       <<<<"kids", "-", "swimming">>, "juken">>,
       <<<<"new", "-", "graduates", "-", "hiring", "-", "website">>, "career">>,
       <<<<"reversed", "-", "job", "-", "offer">>, "career">>,
       <<<<"arbeit">>, "career">>,
       <<<<"job", "-", "change">>, "career">>,
       <<<<"job", "-", "change", "_", "woman">>, "career">>,
       <<<<"job", "-", "change", "_", "scout">>, "career">>,
       <<<<"_", "agent">>, "career">>,
       <<<<"_", "agent", "_", "nurse">>, "career">>,
       <<<<"_", "agent", "_", "nursing">>, "career">>,
       <<<<"_", "agent", "_", "hi", "-", "and", "-", "middle", "-", "class">>, "career">>,
       <<<<"_", "staffing">>, "career">>,
       <<<<"_", "staffing", "_", "manufacture">>, "career">>,
       <<<<"temp", "-", "staff">>, "career">>,
       <<<<"employment">>, "career">> >>

\* URLResolver.SUBDOMAIN_MAP, in dict order
ResolverSubdomainMap ==
    << <<<<"online", "-", "english">>, "juken">>,
       <<<<"kids", "-", "english">>, "juken">>,
       <<<<"_", "english">>, "juken">>,
       <<<<"_", "college">>, "juken">>,
       <<<<"highschool">>, "juken">>,
       <<<<"_", "junior">>, "juken">>,
       <<<<"online", "-", "study">>, "juken">>,
       <<<<"tutor">>, "juken">>,
       <<<<"cc">>, "juken">>,
       <<<<"license">>, "juken">>,
       <<<<"kids", "-", "swimming">>, "juken">>,
       <<<<"kids", "-", "programming">>, "juken">>,
       <<<<"programming", "-", "for", "-", "kids">>, "juken">>,
       <<<<"cram", "-", "school">>, "juken">>,
       <<<<"elementary", "-", "school", "-", "tutoring">>, "juken">>,
       <<<<"new", "-", "graduates", "-", "hiring", "-", "website">>, "career">>,
       <<<<"reversed", "-", "job", "-", "offer">>, "career">>,
       <<<<"arbeit">>, "career">>,
       <<<<"job", "-", "change">>, "career">>,
       <<<<"_", "agent">>, "career">>,
       <<<<"_", "staffing">>, "career">>,
       <<<<"dispatch">>, "career">>,
       <<<<"employment", "-", "agency">>, "career">>,
       <<<<"recruiting">>, "career">>,
       <<<<"career", "-", "change">>, "career">>,
       <<<<"recruitment", "-", "support">>, "career">>,
       <<<<"senior", "-", "employment">>, "career">>,
       <<<<"freelance", "-", "agent">>, "career">>,
       <<<<"side", "-", "job">>, "career">>,
       <<<<"training">>, "career">>,
       <<<<"talent", "-", "management">>, "career">> >>

\* URL_SLUG_MAP (the same table in OriconScraper and in URLResolver)
URL_SLUG_MAP ==
    (<<"moving", "-", "company">> :> [slug |-> <<"_", "move">>, domain |-> "life"])
    @@ (<<"travel", "-", "reservation", "-", "site">> :> [slug |-> <<"travel", "-", "website">>, domain |-> "life"])
    @@ (<<"fitness", "-", "gym">> :> [slug |-> <<"_", "fitness">>, domain |-> "life"])
    @@ (<<"_", "hikari">> :> [slug |-> <<"_", "internet">>, domain |-> "life"])
    @@ (<<"home", "-", "wifi">> :> [slug |-> <<"_", "internet">>, domain |-> "life"])
    @@ (<<"_", "site">> :> [slug |-> <<"job", "-", "change">>, domain |-> "career"])
    @@ (<<"_", "haken">> :> [slug |-> <<"_", "staffing">>, domain |-> "career"])
    @@ (<<"english", "-", "school">> :> [slug |-> <<"_", "english">>, domain |-> "juken"])
    @@ (<<"programming", "-", "school">> :> [slug |-> <<"kids", "-", "programming">>, domain |-> "juken"])
    @@ (<<"kids", "-", "english", "-", "school">> :> [slug |-> <<"kids", "-", "english">>, domain |-> "juken"])
    @@ (<<"swimming", "-", "school">> :> [slug |-> <<"kids", "-", "swimming">>, domain |-> "juken"])

SUBPATH_MAP == (<<"infant">> :> <<"preschooler">>)

NO_RANK_PREFIX == {<<"medical", "_", "insurance">>}

\* the first pattern of the table that is the slug or a prefix of it
RECURSIVE FirstMatch(_, _, _)
FirstMatch(table, base_slug, default) ==
    IF table = <<>> THEN default
    ELSE IF base_slug = Head(table)[1] \/ StartsWith(base_slug, Head(table)[1])
         THEN Head(table)[2]
         ELSE FirstMatch(Tail(table), base_slug, default)

\* rank + slug for "_x", rank- + slug otherwise (scraper.py 472-475, 542-545)
NewPrefix(new_slug) ==
    IF StartsWith(new_slug, <<"_">>) THEN <<"rank">> \o new_slug
    ELSE <<"rank", "-">> \o new_slug

\* OriconScraper.__init__ (scraper.py 252-305): the fields a slug sets
OriconScraper(slug_arg) ==
    LET ranking_slug == IF Contains(slug_arg, "@") THEN BeforeFirst(slug_arg, "@")
                        ELSE slug_arg
        survey_type == IF Contains(slug_arg, "@") THEN AfterFirst(slug_arg, "@")
                       ELSE <<"type01">>
        base_slug == BeforeFirst(ranking_slug, "/")
        sub == IF Contains(ranking_slug, "/") THEN AfterFirst(ranking_slug, "/")
               ELSE <<>>
        subdomain ==
            IF base_slug \in {<<"online", "-", "english">>,
                              <<"kids", "-", "english">>,
                              <<"tutor">>,
                              <<"online", "-", "study">>,
                              <<"kids", "-", "swimming">>,
                              <<"_", "english">>}
                THEN "juken"
            ELSE IF base_slug \in {<<"_", "agent">>,
                              <<"_", "staffing">>,
                              <<"_", "staffing", "_", "manufacture">>,
                              <<"job", "-", "change">>}
                THEN "career"
            ELSE FirstMatch(SUBDOMAIN_MAP, base_slug, "life")
        url_prefix ==
            IF base_slug \in NO_RANK_PREFIX THEN base_slug
            ELSE IF StartsWith(base_slug, <<"_">>) THEN <<"rank">> \o base_slug
            ELSE IF StartsWith(base_slug, <<"rank", "_">>) THEN base_slug
            ELSE <<"rank", "-">> \o base_slug
    IN  [ranking_slug |-> ranking_slug, survey_type |-> survey_type,
         subpath |-> sub, BASE_URL |-> subdomain, url_prefix |-> url_prefix]

\* the top page URL of a scraper (scraper.py 362-364)
TopPageUrl(self) ==
    WebUrl(self.BASE_URL,
           self.url_prefix \o (IF self.subpath # <<>> THEN <<"/">> \o self.subpath
                               ELSE <<>>))

\* OriconScraper.get_corrected_url
get_corrected_url(self) ==
    LET base_slug == BeforeFirst(self.ranking_slug, "/")
    IN  IF base_slug \in DOMAIN URL_SLUG_MAP
        THEN LET mapping == URL_SLUG_MAP[base_slug]
                 sub == IF self.subpath \in DOMAIN SUBPATH_MAP
                        THEN SUBPATH_MAP[self.subpath] ELSE self.subpath
             IN  WebUrl(mapping.domain,
                        NewPrefix(mapping.slug)
                        \o (IF sub # <<>> THEN <<"/">> \o sub ELSE <<>>))
        ELSE TopPageUrl(self)

Suggestion(url, confidence) == [url |-> url, confidence |-> confidence]

\* scraper.py 519-526: duplicates and the failed URL dropped
RECURSIVE UniqueSuggestions(_, _, _)
UniqueSuggestions(suggestions, seen_urls, failed_url) ==
    IF suggestions = <<>> THEN <<>>
    ELSE LET s == Head(suggestions)
         IN  IF s.url \notin seen_urls /\ s.url # failed_url
             THEN <<s>> \o UniqueSuggestions(Tail(suggestions),
                                             seen_urls \cup {s.url}, failed_url)
             ELSE UniqueSuggestions(Tail(suggestions), seen_urls, failed_url)

\* OriconScraper._suggest_alternative_urls
_suggest_alternative_urls(failed_url) ==
    LET current_domain == failed_url.domain
        path_parts == SplitBy(failed_url.path, "/")
        slug_part == path_parts[1]
        base_slug ==
            IF StartsWith(slug_part, <<"rank", "-">>) THEN SubSeq(slug_part, 3, Len(slug_part))
            ELSE IF StartsWith(slug_part, <<"rank", "_">>)
                 THEN <<"_">> \o SubSeq(slug_part, 3, Len(slug_part))
            ELSE slug_part
        converted_subpath ==
            [i \in 1..(Len(path_parts) - 1) |->
                IF path_parts[i + 1] \in DOMAIN SUBPATH_MAP
                THEN SUBPATH_MAP[path_parts[i + 1]] ELSE path_parts[i + 1]]
        renamed ==
            IF base_slug \in DOMAIN URL_SLUG_MAP
            THEN <<Suggestion(
                     WebUrl(URL_SLUG_MAP[base_slug].domain,
                            NewPrefix(URL_SLUG_MAP[base_slug].slug)
                            \o (IF converted_subpath # <<>>
                                THEN <<"/">> \o Join(converted_subpath, "/")
                                ELSE <<>>)),
                     "high")>>
            ELSE <<>>
        other_domains ==
            SelectSeq(<<"life", "juken", "career">>, LAMBDA d : d # current_domain)
        moved ==
            [i \in 1..Len(other_domains) |->
                Suggestion(WebUrl(other_domains[i], failed_url.path), "medium")]
        respelled ==
            IF \E i \in 1..(Len(failed_url.path) - 1) :
                   failed_url.path[i] = "rank" /\ failed_url.path[i + 1] = "-"
            THEN <<Suggestion(WebUrl(current_domain,
                       ReplaceRankSeparator(failed_url.path, "-", "_")), "medium")>>
            ELSE IF \E i \in 1..(Len(failed_url.path) - 1) :
                   failed_url.path[i] = "rank" /\ failed_url.path[i + 1] = "_"
            THEN <<Suggestion(WebUrl(current_domain,
                       ReplaceRankSeparator(failed_url.path, "_", "-")), "medium")>>
            ELSE <<>>
        unique == UniqueSuggestions(renamed \o moved \o respelled, {}, failed_url)
    IN  SubSeq(unique, 1, Min({5, Len(unique)}))

\* URLResolver._determine_subdomain
_determine_subdomain(slug) ==
    FirstMatch(ResolverSubdomainMap, BeforeFirst(BeforeFirst(slug, "/"), "@"), "life")

\* a builder that ignores the underscore rule
BuildUrlPrefixAlwaysDash(slug) ==
    IF StartsWith(slug, <<"rank", "_">>) THEN slug
    ELSE <<"rank", "-">> \o slug

\* URLResolver._build_url_prefix
_build_url_prefix(slug) ==
    IF StartsWith(slug, <<"_">>) THEN <<"rank">> \o slug
    ELSE IF StartsWith(slug, <<"rank", "_">>) THEN slug
    ELSE IF StartsWith(slug, <<"rank", "-">>) THEN slug
    ELSE <<"rank", "-">> \o slug

\* URLResolver._infer_url_from_slug
_infer_url_from_slug(slug_arg) ==
    LET base_slug == BeforeFirst(BeforeFirst(slug_arg, "/"), "@")
        renamed == base_slug \in DOMAIN URL_SLUG_MAP
        slug == IF renamed THEN URL_SLUG_MAP[base_slug].slug ELSE slug_arg
        subdomain == IF renamed THEN URL_SLUG_MAP[base_slug].domain
                     ELSE _determine_subdomain(base_slug)
        url_prefix == IF Contains(slug, "/")
                      THEN _build_url_prefix(BeforeFirst(slug, "/"))
                      ELSE _build_url_prefix(base_slug)
        sub == IF Contains(slug, "/") THEN <<"/">> \o AfterFirst(slug, "/") ELSE <<>>
    IN  WebUrl(subdomain, url_prefix \o sub)

\* the slugs given to the URL builders: every renamed slug, and slugs of each
\* other prefix rule, alone or with a sub-path and a survey type
BaseSlugs ==
    DOMAIN URL_SLUG_MAP
    \cup {<<"mobile", "-", "carrier">>, <<"_", "fx">>, <<"online", "-", "english">>,
          <<"medical", "_", "insurance">>, <<"rank", "_", "certificate">>,
          <<"rank", "-", "card", "-", "loan">>}

SlugInputs ==
    {b \o s \o t : b \in BaseSlugs,
                   s \in {<<>>, <<"/", "infant">>, <<"/", "nonbank">>},
                   t \in {<<>>, <<"@", "type02">>}}

UrlInit ==
    /\ slug_input \in SlugInputs
    /\ url_op = "none"
    /\ url_pc = "ready"
    /\ url_out = None

\* scraper = OriconScraper(slug, name); scraper.get_corrected_url()
GetCorrectedUrl ==
    /\ url_pc = "ready"
    /\ url_op' = "get_corrected_url"
    /\ url_out' = Some(get_corrected_url(OriconScraper(slug_input)))
    /\ url_pc' = "done"
    /\ UNCHANGED <<slug_input, notUrlVars>>

\* scraper.validate_url() when the top page answers 404 (scraper.py 362-364,
\* 391-397): the suggestions returned for the top page URL
SuggestAlternativeUrls ==
    /\ url_pc = "ready"
    /\ url_op' = "_suggest_alternative_urls"
    /\ url_out' = Some(_suggest_alternative_urls(TopPageUrl(OriconScraper(slug_input))))
    /\ url_pc' = "done"
    /\ UNCHANGED <<slug_input, notUrlVars>>

\* URLResolver._infer_url_from_slug(slug)
InferUrl ==
    /\ url_pc = "ready"
    /\ url_op' = "_infer_url_from_slug"
    /\ url_out' = Some(_infer_url_from_slug(slug_input))
    /\ url_pc' = "done"
    /\ UNCHANGED <<slug_input, notUrlVars>>

\* scraper = OriconScraper(slug, name): the prefix it holds
NewOriconScraper ==
    /\ url_pc = "ready"
    /\ url_op' = "OriconScraper"
    /\ url_out' = Some(OriconScraper(slug_input).url_prefix)
    /\ url_pc' = "done"
    /\ UNCHANGED <<slug_input, notUrlVars>>

\* URLResolver._build_url_prefix(base_slug), as _infer_url_from_slug calls it
\* for a slug without sub-path (url_resolver.py 154, 165)
BuildUrlPrefix ==
    /\ url_pc = "ready"
    /\ url_op' = "_build_url_prefix"
    /\ url_out' = Some(_build_url_prefix(
                           BeforeFirst(BeforeFirst(slug_input, "/"), "@")))
    /\ url_pc' = "done"
    /\ UNCHANGED <<slug_input, notUrlVars>>

UrlNext ==
    \/ GetCorrectedUrl
    \/ SuggestAlternativeUrls
    \/ InferUrl
    \/ NewOriconScraper
    \/ BuildUrlPrefix

InitUrl == UrlInit /\ AnalyzerIdle /\ TopicsIdle /\ FetchIdle /\ OverallIdle /\ ResolverIdle /\ AliasIdle /\ GapIdle /\ RetryIdle /\ MemoIdle /\ ExcelIdle /\ CatIdle /\ ValIdle /\ MergeIdle /\ AutoIdle /\ IndexIdle /\ WinsIdle

SpecUrls == InitUrl /\ [][UrlNext]_vars

\* the renamed-slug key of an input slug
RenamedKey(slug_arg) == BeforeFirst(BeforeFirst(slug_arg, "/"), "@")

\* the alternate URL an operation produced: the URL itself, or the URL of the
\* first (high-confidence) suggestion
ProducedUrl ==
    IF url_op = "_suggest_alternative_urls" THEN url_out[1][1].url ELSE url_out[1]

\* a URL built from the mapped slug on the mapped subdomain
UsesMapping(url, mapping) ==
    /\ url.domain = mapping.domain
    /\ SplitBy(url.path, "/")[1] = NewPrefix(mapping.slug)

(***************************************************************************)
(* C12: for every slug present in URL_SLUG_MAP, the alternate URL produced *)
(* for it -- by get_corrected_url, by the first suggestion of              *)
(* _suggest_alternative_urls, and by URLResolver's inferred URL -- is on   *)
(* the mapped subdomain and its first path segment is rank + mapped slug   *)
(* (moving-company gives life, rank_move).                                 *)
(***************************************************************************)
C12_RenamedSlugUsesMapping ==
    (url_pc = "done" /\ RenamedKey(slug_input) \in DOMAIN URL_SLUG_MAP
     /\ url_op \in {"get_corrected_url", "_suggest_alternative_urls",
                    "_infer_url_from_slug"}) =>
        /\ url_op = "_suggest_alternative_urls" => url_out[1] # <<>>
        /\ UsesMapping(ProducedUrl, URL_SLUG_MAP[RenamedKey(slug_input)])

\* the base slug a prefix is built from
PrefixSlug ==
    IF url_op = "OriconScraper"
    THEN BeforeFirst(BeforeFirst(slug_input, "@"), "/")
    ELSE BeforeFirst(BeforeFirst(slug_input, "/"), "@")

\* the prefix the naming convention gives a slug that begins with "_", that
\* begins with "rank_", or that carries no rank prefix
ConventionPrefix(slug) ==
    IF StartsWith(slug, <<"_">>) THEN <<"rank">> \o slug
    ELSE IF StartsWith(slug, <<"rank", "_">>) THEN slug
    ELSE <<"rank", "-">> \o slug

PrefixBuilt == url_pc = "done" /\ url_op \in {"OriconScraper", "_build_url_prefix"}

required_fields == {"version", "source", "total_rankings", "rankings"}

Ranking(id, slug, url) == [id |-> id, slug |-> slug, url |-> url]

File(kind, fields, rs, total_rankings, checksum) ==
    [kind |-> kind, fields |-> fields, rankings |-> rs,
     total_rankings |-> total_rankings, checksum |-> checksum]

MissingFile == File("missing", {}, <<>>, 0, None)

NotJsonFile == File("not_json", {}, <<>>, 0, None)

\* hashlib.sha256(json.dumps(data_without_checksum, sort_keys=True)).hexdigest():
\* equal digests for equal content, different digests for different content
Sha256(doc) == <<"sha256", doc.fields, doc.rankings, doc.total_rankings>>

WithChecksum(doc) == [doc EXCEPT !.checksum = Some(Sha256(doc))]

OnlineEnglish ==
    Ranking(<<"2078">>, <<"online", "-", "english">>,
            WebUrl("juken", <<"rank", "-", "online", "-", "english">>))

MobileCarrier ==
    Ranking(<<"1001">>, <<"mobile", "-", "carrier">>,
            WebUrl("life", <<"rank", "-", "mobile", "-", "carrier">>))

\* a ranking whose master-data URL is not the one inference would build
EnglishSchool ==
    Ranking(<<"2080">>, <<"kids", "-", "english">>,
            WebUrl("juken", <<"rank", "_", "kids", "_", "english">>))

\* a ranking without an id
Unnumbered ==
    Ranking(<<>>, <<"_", "fx">>, WebUrl("life", <<"rank", "_", "fx">>))

GoodDoc == File("json", required_fields, <<OnlineEnglish, EnglishSchool, Unnumbered>>, 3, None)

\* the content was changed after the checksum was stored
TamperedDoc ==
    [WithChecksum(GoodDoc) EXCEPT
        !.rankings = <<[OnlineEnglish EXCEPT !.url = WebUrl("evil", <<"rank">>)],
                       EnglishSchool, Unnumbered>>]

MainFiles ==
    {MissingFile, NotJsonFile, GoodDoc, WithChecksum(GoodDoc), TamperedDoc,
     File("json", required_fields \ {"version"}, <<OnlineEnglish>>, 1, None),
     File("json", required_fields, <<OnlineEnglish>>, 2, None)}

BackupDoc == File("json", required_fields, <<MobileCarrier, EnglishSchool>>, 2, None)

BackupFiles ==
    {MissingFile, NotJsonFile, BackupDoc,
     File("json", required_fields \ {"rankings"}, <<>>, 0, None)}

Identifiers ==
    {<<"2078">>, <<"2080">>, <<"9999">>, <<"kids", "-", "english">>,
     <<"mobile", "-", "carrier">>, <<"moving", "-", "company">>}

\* the outcome of a call: the value it returned or the exception it raised
Returned(value) == [value |-> value, exc |-> None]

Raised(exc, value) == [value |-> value, exc |-> Some(exc)]

\* MasterDataLoader._verify_checksum: what it logs
_verify_checksum(doc) ==
    IF doc.checksum[1] # Sha256(doc) THEN "warning" ELSE "ok"

\* MasterDataLoader._validate_data: the exception it raises, or None
_validate_data(doc) ==
    IF ~(required_fields \subseteq doc.fields) THEN Some("ValueError")
    ELSE IF doc.checksum # None /\ _verify_checksum(doc) = "warning"
         THEN None    \* logged, nothing raised
    ELSE None

\* MasterDataLoader._load_json
_load_json(file) ==
    IF file.kind = "missing" THEN Raised("FileNotFoundError", file)
    ELSE IF file.kind = "not_json" THEN Raised("JSONDecodeError", file)
    ELSE IF _validate_data(file) # None THEN Raised(_validate_data(file)[1], file)
    ELSE Returned(file)

\* d[k] = v
Put(d, k, v) == [x \in DOMAIN d \cup {k} |-> IF x = k THEN v ELSE d[x]]

\* the loader object: its three fields
Loader(d, by_id, by_slug) ==
    [data |-> d, rankings_by_id |-> by_id, rankings_by_slug |-> by_slug]

\* the loop of _build_indexes over self.data["rankings"]
RECURSIVE IndexRankings(_, _)
IndexRankings(self, rs) ==
    IF rs = <<>> THEN self
    ELSE LET ranking == Head(rs)
             by_id == IF ranking.id # <<>>
                      THEN Put(self.rankings_by_id, ranking.id, ranking)
                      ELSE self.rankings_by_id
             listed == IF ranking.slug \in DOMAIN self.rankings_by_slug
                       THEN self.rankings_by_slug[ranking.slug] ELSE <<>>
             by_slug == IF ranking.slug # <<>>
                        THEN Put(self.rankings_by_slug, ranking.slug,
                                 Append(listed, ranking))
                        ELSE self.rankings_by_slug
         IN  IndexRankings(Loader(self.data, by_id, by_slug), Tail(rs))

\* MasterDataLoader._build_indexes
_build_indexes(self) ==
    IF self.data = None \/ "rankings" \notin self.data[1].fields THEN self
    ELSE IndexRankings(self, self.data[1].rankings)

\* the except clauses of _load_with_fallback, in order
OnlyFileNotFoundHandlers == <<"FileNotFoundError">>
LoadHandlers == <<"FileNotFoundError", "JSONDecodeError", "Exception">>

BackupHandlers == <<"Exception">>

\* self.data = self._load_json(path); self._build_indexes()
LoadAndIndex(self, file) ==
    LET loaded == _load_json(file)
    IN  IF loaded.exc # None THEN Raised(loaded.exc[1], self)
        ELSE Returned(_build_indexes(
                 Loader(Some(loaded.value), self.rankings_by_id, self.rankings_by_slug)))

\* MasterDataLoader._try_load_backup
_try_load_backup(self, backup) ==
    IF backup.kind # "missing"
    THEN LET attempt == LoadAndIndex(self, backup)
         IN  IF attempt.exc = None THEN attempt
             ELSE IF Caught(BackupHandlers, attempt.exc[1])
                  THEN Raised("FileNotFoundError", attempt.value)
                  ELSE attempt
    ELSE Raised("FileNotFoundError", self)

\* MasterDataLoader._load_with_fallback
_load_with_fallback(self, main, backup) ==
    LET attempt == LoadAndIndex(self, main)
    IN  IF attempt.exc = None THEN attempt
        ELSE IF Caught(LoadHandlers, attempt.exc[1])
             THEN _try_load_backup(attempt.value, backup)
             ELSE attempt

\* MasterDataLoader.__init__
MasterDataLoader(main, backup) ==
    _load_with_fallback(Loader(None, <<>>, <<>>), main, backup)

\* MasterDataLoader.get_ranking
get_ranking(self, ranking_id) ==
    IF ranking_id \in DOMAIN self.rankings_by_id
    THEN Some(self.rankings_by_id[ranking_id]) ELSE None

\* MasterDataLoader.get_ranking_url
get_ranking_url(self, ranking_id) ==
    IF get_ranking(self, ranking_id) = None THEN Raised("KeyError", None)
    ELSE Returned(get_ranking(self, ranking_id)[1].url)

\* the except clauses of the master-data lookup in get_url, in order
GetUrlHandlers == <<"KeyError", "Exception">>

\* URLResolver.get_url: <<url, mode>>
get_url(loader, ident) ==
    LET lookup == get_ranking_url(loader, ident)
    IN  IF lookup.exc = None THEN Returned(<<lookup.value, "master_data">>)
        ELSE IF Caught(GetUrlHandlers, lookup.exc[1])
             THEN Returned(<<_infer_url_from_slug(ident), "inference">>)
             ELSE lookup

ResolverInit ==
    /\ main_file \in MainFiles
    /\ backup_file \in BackupFiles
    /\ identifier \in Identifiers
    /\ resolver_pc = "new"
    /\ master_data = None
    /\ rankings_by_id = <<>>
    /\ rankings_by_slug = <<>>
    /\ resolver_raised = None
    /\ resolved = None

\* resolver = URLResolver(master_data_path): the loader is constructed, and
\* an exception of its constructor leaves URLResolver.__init__ as it is
NewURLResolver ==
    /\ resolver_pc = "new"
    /\ LET made == MasterDataLoader(main_file, backup_file)
       IN  /\ master_data' = made.value.data
           /\ rankings_by_id' = made.value.rankings_by_id
           /\ rankings_by_slug' = made.value.rankings_by_slug
           /\ resolver_raised' = made.exc
           /\ resolver_pc' = IF made.exc = None THEN "constructed" ELSE "raised"
    /\ UNCHANGED <<main_file, backup_file, identifier, resolved, notResolverVars>>

\* url, mode = resolver.get_url(identifier)
GetUrl ==
    /\ resolver_pc \in {"constructed", "reloaded"}
    /\ LET got == get_url(Loader(master_data, rankings_by_id, rankings_by_slug),
                          identifier)
       IN  /\ resolved' = Some(got.value)
           /\ resolver_raised' = got.exc
    /\ resolver_pc' = "resolved"
    /\ UNCHANGED <<main_file, backup_file, identifier, master_data, rankings_by_id,
                   rankings_by_slug, notResolverVars>>

\* loader.reload(): _load_with_fallback on the object as it is
Reload ==
    /\ resolver_pc = "constructed"
    /\ LET again == _load_with_fallback(
                        Loader(master_data, rankings_by_id, rankings_by_slug),
                        main_file, backup_file)
       IN  /\ master_data' = again.value.data
           /\ rankings_by_id' = again.value.rankings_by_id
           /\ rankings_by_slug' = again.value.rankings_by_slug
           /\ resolver_raised' = again.exc
           /\ resolver_pc' = IF again.exc = None THEN "reloaded" ELSE "raised"
    /\ UNCHANGED <<main_file, backup_file, identifier, resolved, notResolverVars>>

ResolverNext ==
    \/ NewURLResolver
    \/ GetUrl
    \/ Reload

InitResolver == ResolverInit /\ AnalyzerIdle /\ TopicsIdle /\ FetchIdle /\ OverallIdle /\ UrlIdle /\ AliasIdle /\ GapIdle /\ RetryIdle /\ MemoIdle /\ ExcelIdle /\ CatIdle /\ ValIdle /\ MergeIdle /\ AutoIdle /\ IndexIdle /\ WinsIdle

SpecResolver == InitResolver /\ [][ResolverNext]_vars

\* the rankings of the loaded master data that the identifier matches, by
\* numeric id or by slug
MatchingRankings ==
    {i \in 1..Len(master_data[1].rankings) :
        \/ master_data[1].rankings[i].id = identifier
        \/ master_data[1].rankings[i].slug = identifier}

(***************************************************************************)
(* C11: URLResolver.get_url returns the master-data URL, in mode           *)
(* "master_data", whenever the identifier is the id or the slug of a       *)
(* ranking of the master data, and uses mode "inference" only when the     *)
(* identifier matches no ranking.                                          *)
(***************************************************************************)
C11_MasterDataWhenIdOrSlugMatches ==
    (resolver_pc = "resolved" /\ resolver_raised = None) =>
        /\ MatchingRankings # {} =>
              /\ resolved[1][2] = "master_data"
              /\ \E i \in MatchingRankings :
                    resolved[1][1] = master_data[1].rankings[i].url
        /\ resolved[1][2] = "inference" => MatchingRankings = {}

(***************************************************************************)
(* C13: a missing or unparsable master data file does not stop URL         *)
(* resolution: no exception leaves the resolver because of it, and         *)
(* get_url still returns a URL (the inferred one when no master data was   *)
(* loaded).                                                                *)
(***************************************************************************)
C13_MissingMasterDataDoesNotStopResolution ==
    main_file.kind \in {"missing", "not_json"} =>
        /\ resolver_pc # "raised"
        /\ resolver_pc = "resolved" =>
              /\ resolved # None
              /\ master_data = None =>
                    resolved[1] = <<_infer_url_from_slug(identifier), "inference">>

\* the main file is missing, is not valid JSON or fails validation
MainUnusable ==
    \/ main_file.kind \in {"missing", "not_json"}
    \/ _validate_data(main_file) # None

\* the backup exists, is valid JSON and passes validation
BackupUsable ==
    /\ backup_file.kind = "json"
    /\ _validate_data(backup_file) = None

\* the ids of the rankings of a file
IdsOf(file) ==
    {file.rankings[i].id : i \in 1..Len(file.rankings)} \ {<<>>}

(***************************************************************************)
(* C14: when the main file is missing, is not valid JSON or fails          *)
(* validation (_validate_data raises), MasterDataLoader holds the data and *)
(* the id index of the .backup file whenever that file is usable; the only *)
(* exception that leaves it is FileNotFoundError, and only when the main   *)
(* file is unusable and the backup is missing or unusable too; and a load  *)
(* that finishes without an exception has data.                            *)
(***************************************************************************)
C14_BackupFallbackOrExplicitError ==
    resolver_pc # "new" =>
        /\ (MainUnusable /\ BackupUsable) =>
              /\ resolver_raised = None
              /\ master_data = Some(backup_file)
              /\ DOMAIN rankings_by_id = IdsOf(backup_file)
        /\ resolver_raised # None =>
              /\ resolver_raised = Some("FileNotFoundError")
              /\ MainUnusable
              /\ ~BackupUsable
        /\ resolver_raised = None => master_data # None

\* the main file failed validation and the loader holds the backup's data
C14_Witness ==
    /\ resolver_pc = "constructed"
    /\ main_file.kind = "json"
    /\ MainUnusable
    /\ master_data = Some(backup_file)

(***************************************************************************)
(* C20: a main file whose "checksum" field differs from the SHA-256 digest *)
(* of its remaining content is not accepted as master data: after loading, *)
(* the loader's data is not that file and none of the indexed rankings     *)
(* comes from it alone.                                                    *)
(***************************************************************************)
C20_ChecksumMismatchRejected ==
    (/\ resolver_pc # "new"
     /\ main_file.kind = "json"
     /\ main_file.checksum # None
     /\ main_file.checksum[1] # Sha256(main_file)) =>
        /\ master_data # Some(main_file)
        /\ \A id \in DOMAIN rankings_by_id :
              \E i \in 1..Len(backup_file.rankings) :
                  rankings_by_id[id] = backup_file.rankings[i]

(***************************************************************************)
(* The alias table in effect (analyzer.py, _load_company_aliases) and      *)
(* normalize_company_name applied once and twice.  The alias file is       *)
(* missing, unreadable, or holds the table under "aliases".                *)
(***************************************************************************)
MaxNameLen == 3

NameChars == {"A", "B", "O", "zA", "sp", "zsp"}

\* company names: every string of at most MaxNameLen characters
NameInputs == UNION {[1..n -> NameChars] : n \in 0..MaxNameLen}

AliasFile(kind, aliases) == [kind |-> kind, aliases |-> aliases]

AliasFiles ==
    {AliasFile("missing", <<>>),
     AliasFile("unreadable", <<>>),
     AliasFile("json", <<>>),
     AliasFile("json", DEFAULT_COMPANY_ALIASES),
     \* a company renamed twice: O became B, B became A
     AliasFile("json", (NameAold :> NameB) @@ (NameB :> NameA)),
     \* a canonical name written with a full-width letter
     AliasFile("json", (NameAold :> <<"zA">>))}

\* _load_company_aliases
_load_company_aliases(file) ==
    IF file.kind = "json" THEN file.aliases
    ELSE DEFAULT_COMPANY_ALIASES

AliasInit ==
    /\ alias_file \in AliasFiles
    /\ name_input \in NameInputs
    /\ aliases_loaded = <<>>
    /\ name_once = <<>>
    /\ name_twice = <<>>
    /\ alias_pc = "import"

\* import analyzer: COMPANY_ALIASES = _load_company_aliases()
ImportAnalyzer ==
    /\ alias_pc = "import"
    /\ aliases_loaded' = _load_company_aliases(alias_file)
    /\ alias_pc' = "loaded"
    /\ UNCHANGED <<alias_file, name_input, name_once, name_twice, notAliasVars>>

\* y = normalize_company_name(x)
NormalizeOnce ==
    /\ alias_pc = "loaded"
    /\ name_once' = NormalizeWith(aliases_loaded, name_input)
    /\ alias_pc' = "once"
    /\ UNCHANGED <<alias_file, aliases_loaded, name_input, name_twice, notAliasVars>>

\* z = normalize_company_name(y)
NormalizeAgain ==
    /\ alias_pc = "once"
    /\ name_twice' = NormalizeWith(aliases_loaded, name_once)
    /\ alias_pc' = "twice"
    /\ UNCHANGED <<alias_file, aliases_loaded, name_input, name_once, notAliasVars>>

AliasNext ==
    \/ ImportAnalyzer
    \/ NormalizeOnce
    \/ NormalizeAgain

InitAlias == AliasInit /\ AnalyzerIdle /\ TopicsIdle /\ FetchIdle /\ OverallIdle /\ UrlIdle /\ ResolverIdle /\ GapIdle /\ RetryIdle /\ MemoIdle /\ ExcelIdle /\ CatIdle /\ ValIdle /\ MergeIdle /\ AutoIdle /\ IndexIdle /\ WinsIdle

SpecAlias == InitAlias /\ [][AliasNext]_vars

(***************************************************************************)
(* C16: normalize_company_name is idempotent for every input string and    *)
(* the alias table in effect, the built-in defaults or a table loaded from *)
(* the alias file: normalize(normalize(x)) = normalize(x).                 *)
(***************************************************************************)
C16_NormalizeIdempotent ==
    alias_pc = "twice" => name_twice = name_once

(***************************************************************************)
(* The score-gap topic (analyzer.py, _analyze_score_difference).  The      *)
(* scraper reads scores with any number of decimals (scraper.py 2000), so  *)
(* the scores here are in hundredths of a point: 70.0 is 7000, 68.04 is    *)
(* 6804.  An entry of the latest year is its score (None when absent);     *)
(* the company of the i-th entry is i.                                     *)
(***************************************************************************)
TopScore == 7000

SecondScores ==
    {Some(7000), Some(6998), Some(6960), Some(6950), Some(6946), Some(6944),
     Some(6900), Some(6806), Some(6805), Some(6804), Some(6800), Some(6790),
     None}

ThirdScores == {Some(7000), Some(6000)}

\* self.overall[latest_year]: no entry, one entry, two or three entries
LatestRankings ==
    {<<>>}
    \cup {<<s1>> : s1 \in {Some(TopScore), None}}
    \cup {<<s1, s2>> : s1 \in {Some(TopScore), None}, s2 \in SecondScores}
    \cup {<<s1, s2, s3>> : s1 \in {Some(TopScore), None}, s2 \in SecondScores,
                           s3 \in ThirdScores}

\* round(x, 1) of a difference given in hundredths, in tenths: the nearest
\* tenth; at an exact half the binary value of the difference decides, so
\* either neighbour can come out
Round1(hundredths, up) ==
    LET q == hundredths \div 10
        r == hundredths % 10
    IN  IF r < 5 THEN q
        ELSE IF r > 5 THEN q + 1
        ELSE IF up THEN q + 1 ELSE q

\* the companies tied with the first entry (analyzer.py 908-914)
RECURSIVE TiedAfterFirst(_, _)
TiedAfterFirst(rest, score1) ==
    IF rest = <<>> \/ Head(rest) # score1 THEN 0
    ELSE 1 + TiedAfterFirst(Tail(rest), score1)

GapTopic(kind, importance, impact, diff) ==
    [kind |-> kind, importance |-> importance, impact |-> impact, diff |-> diff]

\* TopicsAnalyzer._analyze_score_difference on the latest year's ranking
_analyze_score_difference(latest, up) ==
    IF Len(latest) < 2 THEN None
    ELSE IF latest[1] = None THEN None
    ELSE LET tied == 1 + TiedAfterFirst(Tail(latest), latest[1])
         IN  IF tied = 2 THEN Some(GapTopic("tied_two", "important", 5, 0))
             ELSE IF tied > 2 THEN Some(GapTopic("tied_many", "important", 5, 0))
             ELSE IF latest[2] = None THEN None
             ELSE LET diff == Round1(latest[1][1] - latest[2][1], up)
                  IN  IF diff >= 20
                          THEN Some(GapTopic("big_lead", "important", 4, diff))
                      ELSE IF diff <= 5
                          THEN Some(GapTopic("narrow_margin", "notable", 3, diff))
                      ELSE None

GapInit ==
    /\ overall_scores \in LatestRankings
    /\ gap_pc = "ready"
    /\ gap_topic = None

AnalyzeScoreDifference ==
    /\ gap_pc = "ready"
    /\ \E up \in BOOLEAN : gap_topic' = _analyze_score_difference(overall_scores, up)
    /\ gap_pc' = "done"
    /\ UNCHANGED <<overall_scores, notGapVars>>

GapNext == AnalyzeScoreDifference

InitGap == GapInit /\ AnalyzerIdle /\ TopicsIdle /\ FetchIdle /\ OverallIdle /\ UrlIdle /\ ResolverIdle /\ AliasIdle /\ RetryIdle /\ MemoIdle /\ ExcelIdle /\ CatIdle /\ ValIdle /\ MergeIdle /\ AutoIdle /\ IndexIdle /\ WinsIdle

SpecGap == InitGap /\ [][GapNext]_vars

\* the first two entries of the latest year both have a score
BothScored ==
    /\ Len(overall_scores) >= 2
    /\ overall_scores[1] # None
    /\ overall_scores[2] # None

\* score of the 1st entry minus score of the 2nd, in hundredths
Gap == overall_scores[1][1] - overall_scores[2][1]

TopicKind == IF gap_topic = None THEN "none" ELSE gap_topic[1].kind

(***************************************************************************)
(* C17: with gap = latest-year score of the 1st entry minus score of the   *)
(* 2nd, a gap of at least 2.0 yields the big-lead topic, a gap of at most  *)
(* 0.5 yields the narrow-margin topic, and a gap strictly between 0.5 and  *)
(* 2.0 yields neither.                                                     *)
(***************************************************************************)
C17_GapThresholds ==
    (gap_pc = "done" /\ BothScored) =>
        /\ Gap >= 200 => TopicKind = "big_lead"
        /\ Gap <= 50 => TopicKind = "narrow_margin"
        /\ (50 < Gap /\ Gap < 200) => TopicKind \notin {"big_lead", "narrow_margin"}

(***************************************************************************)
(* The retry policy of the sessions (scraper.py 310-319, site_analyzer.py  *)
(* 285-300): urllib3's Retry(total=3, backoff_factor=1,                    *)
(* status_forcelist=[500, 502, 503, 504], allowed_methods=["GET"]) mounted *)
(* on the session, every other option at its default.  Every attempt of    *)
(* one session.get is a step; the server answers any response of the       *)
(* palette: a status, with or without a Retry-After header.                *)
(***************************************************************************)
total == 3

backoff_factor == 1

status_forcelist == {500, 502, 503, 504}

\* SiteStructureAnalyzer.__init__(max_retries=3)
max_retries == 3

\* Retry.RETRY_AFTER_STATUS_CODES, honoured because respect_retry_after_header
\* is left at its default
RETRY_AFTER_STATUS_CODES == {413, 429, 503}

\* the seconds a Retry-After header of the model asks for
RetryAfterSeconds == 7

Response(status, has_retry_after) ==
    [status |-> status, has_retry_after |-> has_retry_after]

ServerResponses ==
    {Response(st, FALSE) : st \in {200, 404, 429, 500, 502, 503, 504}}
    \cup {Response(429, TRUE), Response(503, TRUE)}

Sessions == {"scraper", "site_analyzer"}

\* Retry.total of a new request of the session
RetryTotal(session) == IF session = "scraper" THEN total ELSE max_retries

\* Retry.is_retry for a GET
is_retry(left, response) ==
    \/ response.status \in status_forcelist
    \/ /\ left # 0
       /\ response.has_retry_after
       /\ response.status \in RETRY_AFTER_STATUS_CODES

\* a variant that allows one more retry
ExhaustedLate(left) == left < -1

\* Retry.is_exhausted: Retry.total has gone below zero
is_exhausted(left) == left < 0

RECURSIVE Pow2(_)
Pow2(n) == IF n = 0 THEN 1 ELSE 2 * Pow2(n - 1)

\* Retry.get_backoff_time after n consecutive failed attempts
Backoff(n) == IF n <= 1 THEN 0 ELSE backoff_factor * Pow2(n - 1)

\* Retry.sleep: the Retry-After header if the response has one, else backoff
SleepFor(response, n) ==
    IF response.has_retry_after THEN RetryAfterSeconds ELSE Backoff(n)

RetryInit ==
    /\ session_of \in Sessions
    /\ retry_left = RetryTotal(session_of)
    /\ responses = <<>>
    /\ sleeps = <<>>
    /\ get_result = None

\* one attempt of session.get(url): the request is sent and answered; a
\* response that is_retry accepts uses up one retry and, unless the retries
\* are exhausted, the adapter sleeps and the request is sent again; any
\* other response is handed back to the caller
Attempt ==
    /\ session_of \in Sessions
    /\ get_result = None
    /\ \E response \in ServerResponses :
          /\ responses' = Append(responses, response)
          /\ IF is_retry(retry_left, response)
             THEN /\ retry_left' = retry_left - 1
                  /\ IF is_exhausted(retry_left - 1)
                     THEN /\ get_result' = Some("RetryError")
                          /\ sleeps' = sleeps
                     ELSE /\ get_result' = None
                          /\ sleeps' = Append(sleeps,
                                              SleepFor(response, Len(responses) + 1))
             ELSE /\ get_result' = Some("Response")
                  /\ UNCHANGED <<retry_left, sleeps>>
    /\ UNCHANGED <<session_of, notRetryVars>>

RetryNext == Attempt

InitRetry == RetryInit /\ AnalyzerIdle /\ TopicsIdle /\ FetchIdle /\ OverallIdle /\ UrlIdle /\ ResolverIdle /\ AliasIdle /\ GapIdle /\ MemoIdle /\ ExcelIdle /\ CatIdle /\ ValIdle /\ MergeIdle /\ AutoIdle /\ IndexIdle /\ WinsIdle

SpecRetry == InitRetry /\ [][RetryNext]_vars

Is4xx(response) == response.status >= 400 /\ response.status < 500

Is5xx(response) == response.status >= 500 /\ response.status < 600

\* the attempts that were followed by another attempt
Retried == 1..(Len(responses) - 1)

MaxOps == 4

\* datetime.now().year
NowYear == 2026

PageYears == {None, Some(2024), Some(2025)}

EndYears == {2023, 2024}

\* the SiteStructure that analyze() returns for the page
SiteStructureOf(shown) == [current_year |-> shown]

\* a variant that never finds a value cached
AlwaysUnset(value) == TRUE

\* "self._x is None"
IsUnset(value) == value = None

MemoInit ==
    /\ page_year \in PageYears
    /\ memo_year = None
    /\ _site_structure = None
    /\ detect_calls = 0
    /\ analyze_calls = 0
    /\ ops = 0
    /\ last_op = "__init__"

\* OriconScraper.analyze_structure
AnalyzeStructure ==
    /\ ops \in 0..(MaxOps - 1)
    /\ ops' = ops + 1
    /\ last_op' = "analyze_structure"
    /\ IF ~IsUnset(_site_structure)
       THEN UNCHANGED <<memo_year, _site_structure, analyze_calls>>
       ELSE /\ _site_structure' = Some(SiteStructureOf(page_year))
            /\ analyze_calls' = analyze_calls + 1
            /\ memo_year' = IF page_year # None /\ IsUnset(memo_year)
                            THEN page_year ELSE memo_year
    /\ UNCHANGED <<page_year, detect_calls, notMemoVars>>

\* OriconScraper.get_overall_rankings((start_year, end_year)): lines 851-860
GetOverallRankings ==
    /\ ops \in 0..(MaxOps - 1)
    /\ ops' = ops + 1
    /\ last_op' = "get_overall_rankings"
    /\ \E end \in EndYears :
          IF IsUnset(memo_year)
          THEN /\ detect_calls' = detect_calls + 1
               /\ memo_year' = IF page_year # None THEN page_year ELSE Some(end)
          ELSE UNCHANGED <<memo_year, detect_calls>>
    /\ UNCHANGED <<page_year, _site_structure, analyze_calls, notMemoVars>>

\* OriconScraper._ensure_actual_top_year
EnsureActualTopYear ==
    IF IsUnset(memo_year)
    THEN /\ detect_calls' = detect_calls + 1
         /\ memo_year' = IF page_year # None THEN page_year ELSE Some(NowYear)
    ELSE UNCHANGED <<memo_year, detect_calls>>

\* OriconScraper.get_evaluation_items: line 927
GetEvaluationItems ==
    /\ ops \in 0..(MaxOps - 1)
    /\ ops' = ops + 1
    /\ last_op' = "get_evaluation_items"
    /\ EnsureActualTopYear
    /\ UNCHANGED <<page_year, _site_structure, analyze_calls, notMemoVars>>

\* OriconScraper.get_departments: line 1034
GetDepartments ==
    /\ ops \in 0..(MaxOps - 1)
    /\ ops' = ops + 1
    /\ last_op' = "get_departments"
    /\ EnsureActualTopYear
    /\ UNCHANGED <<page_year, _site_structure, analyze_calls, notMemoVars>>

\* the site publishes another year, or its top page stops showing one
SiteChanges ==
    /\ ops \in 0..MaxOps
    /\ page_year' \in PageYears \ {page_year}
    /\ UNCHANGED <<memo_year, _site_structure, detect_calls, analyze_calls, ops,
                   last_op, notMemoVars>>

MemoNext ==
    \/ AnalyzeStructure
    \/ GetOverallRankings
    \/ GetEvaluationItems
    \/ GetDepartments
    \/ SiteChanges

InitMemo == MemoInit /\ AnalyzerIdle /\ TopicsIdle /\ FetchIdle /\ OverallIdle /\ UrlIdle /\ ResolverIdle /\ AliasIdle /\ GapIdle /\ RetryIdle /\ ExcelIdle /\ CatIdle /\ ValIdle /\ MergeIdle /\ AutoIdle /\ IndexIdle /\ WinsIdle

SpecMemo == InitMemo /\ [][MemoNext]_vars

(***************************************************************************)
(* C18: once the detected current year or the site structure of a scraper  *)
(* object has been set, no later step changes it, and no later operation   *)
(* calls the year detection, respectively the structure analysis, again.   *)
(***************************************************************************)
C18_MemoizedValuesStay ==
    [][/\ memo_year # None =>
            /\ memo_year' = memo_year
            /\ detect_calls' = detect_calls
       /\ _site_structure # None =>
            /\ _site_structure' = _site_structure
            /\ analyze_calls' = analyze_calls]_vars

\* both values are set, the page has since come to show another year, and
\* further operations have run on the object without a new detection or
\* analysis
C18_Witness ==
    /\ memo_year # None
    /\ _site_structure # None
    /\ page_year # memo_year
    /\ page_year # _site_structure[1].current_year
    /\ ops = MaxOps
    /\ detect_calls + analyze_calls <= 2

(***************************************************************************)
(* The Excel round trip (app.py, create_excel_export and                   *)
(* parse_uploaded_excel).  Sheet names, column names and category names    *)
(* are sequences of characters, one token per character of the source      *)
(* text: "nen" "do" is the column name of the year, "bu" "mon" "_" the      *)
(* prefix of a department sheet; the digits of a year are one token.       *)
(* A cell is a number, a text or empty (NaN when read back).               *)
(***************************************************************************)
HasSub(str, pat) ==
    \E i \in 1..(Len(str) - Len(pat) + 1) : SubSeq(str, i, i + Len(pat) - 1) = pat

\* s[:n]
Take(str, n) == SubSeq(str, 1, Min({n, Len(str)}))

\* s.replace("/", "_").replace("\\", "_")
ReplaceSlashes(str) ==
    [i \in 1..Len(str) |-> IF str[i] \in {"/", "\\"} THEN "_" ELSE str[i]]

COL_YEAR == <<"nen", "do">>
COL_RANK == <<"jun", "i">>
COL_COMPANY == <<"ki", "gyou", "mei">>
COL_SCORE == <<"toku", "ten">>

SHEET_OVERALL == <<"sou", "gou", "ra", "n", "ki_", "n", "gu">>
SHEET_PIVOT == <<"kei", "nen", "hi", "kaku">>
PREFIX_ITEM == <<"kou", "moku", "_">>
PREFIX_DEPT == <<"bu", "mon", "_">>

Num(n) == [kind |-> "num", num |-> n, str |-> <<>>]
Str(chars) == [kind |-> "str", num |-> 0, str |-> chars]
Nan == [kind |-> "nan", num |-> 0, str |-> <<>>]

\* the cell written for a value that may be None
NumCell(opt) == IF opt = None THEN Nan ELSE Num(opt[1])

Sheet(name, columns, rows) == [name |-> name, columns |-> columns, rows |-> rows]

RankingEntry(rank, company, score) ==
    [rank |-> rank, company |-> company, score |-> score]

\* the rows of a ranking sheet: the years in the order given, the entries of
\* a year in their order (app.py 75-82, 160-167, 177-184)
RECURSIVE RankingRows(_, _)
RankingRows(ys, year_order) ==
    IF year_order = <<>> THEN <<>>
    ELSE LET year == Head(year_order)
         IN  [i \in 1..Len(ys[year]) |->
                 <<Num(year), NumCell(ys[year][i].rank),
                   Str(ys[year][i].company), NumCell(ys[year][i].score)>>]
             \o RankingRows(ys, Tail(year_order))

RankingColumns == <<COL_YEAR, COL_RANK, COL_COMPANY, COL_SCORE>>

\* the sheet written for a YearSeries under `name`, none when it has no rows
RankingSheets(name, ys, year_order) ==
    IF RankingRows(ys, year_order) = <<>> THEN <<>>
    ELSE <<Sheet(name, RankingColumns, RankingRows(ys, year_order))>>

\* f"項目_{item_name[:20]}".replace("/", "_").replace("\\", "_")[:31]
CategorySheetName(prefix, category_name) ==
    Take(ReplaceSlashes(prefix \o Take(category_name, 20)), 31)

\* the first entry of the company in the year: <<score, rank>> cells
PivotCells(ys, year, company) ==
    LET hits == {i \in 1..Len(ys[year]) : ys[year][i].company = company}
    IN  IF hits = {} THEN <<Str(<<>>), Str(<<>>)>>
        ELSE LET item == ys[year][Min(hits)]
             IN  <<IF item.score # None THEN Num(item.score[1]) ELSE Str(<<>>),
                   IF item.rank # None THEN Num(item.rank[1]) ELSE Str(<<>>)>>

RECURSIVE PivotColumns(_)
PivotColumns(years_asc) ==
    IF years_asc = <<>> THEN <<>>
    ELSE << <<ToString(Head(years_asc)), "nen", "_">> \o COL_SCORE,
            <<ToString(Head(years_asc)), "nen", "_">> \o COL_RANK >>
         \o PivotColumns(Tail(years_asc))

RECURSIVE PivotRow(_, _, _)
PivotRow(ys, years_asc, company) ==
    IF years_asc = <<>> THEN <<>>
    ELSE PivotCells(ys, Head(years_asc), company)
         \o PivotRow(ys, Tail(years_asc), company)

CompaniesOf(ys) ==
    UNION {{ys[y][i].company : i \in 1..Len(ys[y])} : y \in DOMAIN ys} \ {<<>>}

\* the sheet "経年比較" (app.py 86-109): one row per company, sorted
PivotSheets(ys, years_asc) ==
    LET companies == StableSort(
            [i \in 1..Cardinality(CompaniesOf(ys)) |->
                [key |-> [j \in 1..Len(SetToSeq(CompaniesOf(ys))[i]) |->
                            CodePoint(SetToSeq(CompaniesOf(ys))[i][j])],
                 val |-> SetToSeq(CompaniesOf(ys))[i]]])
    IN  IF CompaniesOf(ys) = {} THEN <<>>
        ELSE <<Sheet(SHEET_PIVOT, <<COL_COMPANY>> \o PivotColumns(years_asc),
                     [i \in 1..Len(companies) |->
                         <<Str(companies[i].val)>>
                         \o PivotRow(ys, years_asc, companies[i].val)])>>

\* create_excel_export(ranking_name, overall_data, item_data, dept_data,
\* historical_data = {}, used_urls = None) where one category has data;
\* year_order is the order sorted(..., key=_year_sort_key, reverse=True)
\* gives the years
create_excel_export(kind, name, ys, year_order) ==
    IF kind = "overall"
    THEN RankingSheets(SHEET_OVERALL, ys, year_order)
         \o PivotSheets(ys, Vals(StableSort(
                [i \in 1..Len(year_order) |->
                    [key |-> <<year_order[i]>>, val |-> year_order[i]]])))
    ELSE IF kind = "item"
    THEN RankingSheets(CategorySheetName(PREFIX_ITEM, name), ys, year_order)
    ELSE RankingSheets(CategorySheetName(PREFIX_DEPT, name), ys, year_order)

\* skip_sheets (app.py 255): 継続利用意向, 推奨意向, 作業用
skip_sheets ==
    {<<"kei2", "zoku", "ri", "you", "i2", "kou2">>, <<"sui", "shou2", "i2", "kou2">>,
     <<"saku", "gyou", "you">>}

\* year_exclude_patterns (app.py 294)
year_exclude_patterns ==
    {<<"kai2", "tou2", "sha2", "suu">>, <<"sai", "shin", "nen">>, <<"kai2", "tou2">>,
     <<"sha2", "suu">>, <<"zen", "nen">>, <<"saku2", "nen">>, <<"kon", "nen">>,
     <<"mai", "nen">>}

\* the sheet-name words of a department sheet (app.py 437): 業態, 投資スタイル,
\* 利用チャート, チャート, レベル, サポート, 別, 部門
DeptSheetWords ==
    {<<"gyou", "tai_">>, <<"tou", "shi", "su", "ta", "i_", "ru">>,
     <<"ri", "you", "chi", "ya_", "-", "to">>, <<"chi", "ya_", "-", "to">>,
     <<"re", "be", "ru">>, <<"sa", "po", "-", "to">>, <<"betsu">>, <<"bu", "mon">>}

WORD_OVERALL == <<"sou", "gou">>
WORD_TARGET == <<"tai", "shou", "ki", "gyou">>
WORD_EVAL_ITEM == <<"hyou", "ka", "kou", "moku">>
WORD_COMPANY == <<"ki", "gyou">>
WORD_RANKING == <<"ra", "n", "ki_", "n", "gu">>
WORD_KAISHA == <<"kai", "sha">>

\* pd.isna of a cell read back: an empty cell and an empty text are NaN
IsNa(cell) == cell.kind = "nan" \/ (cell.kind = "str" /\ cell.str = <<>>)

\* str(value) of a cell
CellText(cell) == IF cell.kind = "num" THEN <<ToString(cell.num)>> ELSE cell.str

\* the header row: it has "順位" and one of "企業", "ランキング", "会社"
IsHeaderRow(columns) ==
    /\ \E i \in 1..Len(columns) : HasSub(columns[i], COL_RANK)
    /\ \E i \in 1..Len(columns) :
          \/ HasSub(columns[i], WORD_COMPANY)
          \/ HasSub(columns[i], WORD_RANKING)
          \/ HasSub(columns[i], WORD_KAISHA)

\* the first column that passes the test, 0 when none does
FirstColumn(columns, Test(_)) ==
    IF \E i \in 1..Len(columns) : Test(columns[i])
    THEN Min({i \in 1..Len(columns) : Test(columns[i])})
    ELSE 0

\* "2024年": five characters, four digits and 年
IsYearLabel(col) ==
    /\ Len(col) = 2
    /\ col[2] = "nen"
    /\ \E y \in 1000..9999 : col[1] = ToString(y)

\* app.py 292-306
YearColumn(columns) ==
    FirstColumn(columns,
        LAMBDA col : /\ \A pat \in year_exclude_patterns : ~HasSub(col, pat)
                     /\ \/ HasSub(col, COL_YEAR)
                        \/ col = <<"nen">>
                        \/ IsYearLabel(col))

\* app.py 308-320
CompanyColumn(columns) ==
    IF FirstColumn(columns, LAMBDA col : HasSub(col, WORD_RANKING \o WORD_TARGET)
                                         \/ HasSub(col, COL_COMPANY)) # 0
    THEN FirstColumn(columns, LAMBDA col : HasSub(col, WORD_RANKING \o WORD_TARGET)
                                           \/ HasSub(col, COL_COMPANY))
    ELSE FirstColumn(columns, LAMBDA col : HasSub(col, WORD_COMPANY)
                                           \/ HasSub(col, WORD_KAISHA))

\* app.py 322-334
RankColumn(columns) ==
    IF FirstColumn(columns, LAMBDA col : col = COL_RANK) # 0
    THEN FirstColumn(columns, LAMBDA col : col = COL_RANK)
    ELSE FirstColumn(columns, LAMBDA col : HasSub(col, COL_RANK))

\* app.py 336-353: スコア, then 合計, then 得点 / 点数
ScoreColumn(columns) ==
    IF FirstColumn(columns, LAMBDA col : HasSub(col, <<"su", "ko", "a">>)) # 0
    THEN FirstColumn(columns, LAMBDA col : HasSub(col, <<"su", "ko", "a">>))
    ELSE IF FirstColumn(columns, LAMBDA col : col = <<"gou", "kei_">>) # 0
    THEN FirstColumn(columns, LAMBDA col : col = <<"gou", "kei_">>)
    ELSE FirstColumn(columns, LAMBDA col : HasSub(col, COL_SCORE)
                                           \/ HasSub(col, <<"ten", "suu">>))

\* app.py 355-364
EvalItemColumn(sheet_name, columns) ==
    IF columns = <<>> THEN 0
    ELSE IF columns[1] = WORD_EVAL_ITEM THEN 1
    ELSE IF /\ HasSub(sheet_name, WORD_EVAL_ITEM)
            /\ columns[1] \notin {COL_RANK, <<"I", "D">>, COL_YEAR,
                                  <<"r", "a", "n", "k">>, <<>>}
         THEN 1
    ELSE 0

\* app.py 369-382: the year of a row
RowYear(cell, inferred_year) ==
    IF IsNa(cell) THEN inferred_year
    ELSE LET text == SelectSeq(CellText(cell), LAMBDA c : c # "nen")
         IN  IF \E y \in 0..9999 : text = <<ToString(y)>>
             THEN LET year == CHOOSE y \in 0..9999 : text = <<ToString(y)>>
                  IN  IF year < 2000 \/ year > NowYear + 5 THEN inferred_year
                      ELSE year
             ELSE inferred_year

\* company.lower() in ['nan', 'none', '']
IsNoCompany(company) ==
    company \in {<<>>, <<"n", "a", "n">>, <<"n", "o", "n", "e">>}

\* dict[key].append(entry), the list created when the key is new
AppendAt(d, k, entry) ==
    Put(d, k, Append(IF k \in DOMAIN d THEN d[k] ELSE <<>>, entry))

\* dict[name][year].append(entry)
AppendUnder(d, name, year, entry) ==
    Put(d, name, AppendAt(IF name \in DOMAIN d THEN d[name] ELSE <<>>, year, entry))

ParsedData(overall_data, item_data, dept_data) ==
    [overall_data |-> overall_data, item_data |-> item_data, dept_data |-> dept_data]

\* app.py 366-457: one row of a sheet stored into the data parsed so far
StoreRow(acc, sheet, row, inferred_year) ==
    LET year_col == YearColumn(sheet.columns)
        company_col == CompanyColumn(sheet.columns)
        rank_col == RankColumn(sheet.columns)
        score_col == ScoreColumn(sheet.columns)
        eval_item_col == EvalItemColumn(sheet.name, sheet.columns)
        year == IF year_col # 0 THEN RowYear(row[year_col], inferred_year)
                ELSE inferred_year
        company == IF IsNa(row[company_col]) THEN <<>> ELSE CellText(row[company_col])
        rank == IF rank_col # 0 /\ ~IsNa(row[rank_col]) /\ row[rank_col].kind = "num"
                THEN Some(row[rank_col].num) ELSE None
        score == IF score_col # 0 /\ ~IsNa(row[score_col]) /\ row[score_col].kind = "num"
                 THEN Some(row[score_col].num) ELSE None
        eval_item_name ==
            IF eval_item_col # 0 /\ ~IsNa(row[eval_item_col])
               /\ CellText(row[eval_item_col]) # WORD_EVAL_ITEM
            THEN CellText(row[eval_item_col]) ELSE <<>>
        entry == RankingEntry(rank, company, score)
        dept_name == IF StartsWith(sheet.name, PREFIX_DEPT)
                     THEN SubSeq(sheet.name, 4, Len(sheet.name))
                     ELSE SelectSeq(sheet.name, LAMBDA c : c # "betsu")
    IN  IF IsNoCompany(company) THEN acc
        ELSE IF HasSub(sheet.name, WORD_OVERALL) \/ HasSub(sheet.name, WORD_TARGET)
            THEN [acc EXCEPT !.overall_data = AppendAt(@, year, entry)]
        ELSE IF eval_item_name # <<>>
                /\ (HasSub(sheet.name, WORD_EVAL_ITEM) \/ eval_item_col # 0)
            THEN [acc EXCEPT !.item_data = AppendUnder(@, eval_item_name, year, entry)]
        ELSE IF \E w \in DeptSheetWords : HasSub(sheet.name, w)
            THEN [acc EXCEPT !.dept_data = AppendUnder(@, dept_name, year, entry)]
        ELSE acc

RECURSIVE StoreRows(_, _, _, _)
StoreRows(acc, sheet, rows, inferred_year) ==
    IF rows = <<>> THEN acc
    ELSE StoreRows(StoreRow(acc, sheet, Head(rows), inferred_year), sheet,
                   Tail(rows), inferred_year)

\* app.py 253-457: one sheet of the workbook
ParseSheet(acc, sheet, inferred_year) ==
    IF \E skip \in skip_sheets : HasSub(sheet.name, skip) THEN acc
    ELSE IF ~IsHeaderRow(sheet.columns) THEN acc
    ELSE IF CompanyColumn(sheet.columns) # 0
            /\ (RankColumn(sheet.columns) # 0 \/ ScoreColumn(sheet.columns) # 0)
         THEN StoreRows(acc, sheet, sheet.rows, inferred_year)
    ELSE acc

RECURSIVE ParseSheets(_, _, _)
ParseSheets(acc, sheets, inferred_year) ==
    IF sheets = <<>> THEN acc
    ELSE ParseSheets(ParseSheet(acc, Head(sheets), inferred_year), Tail(sheets),
                     inferred_year)

\* parse_uploaded_excel(uploaded_file): no year given and none in the file
\* name, so that inferred_year is datetime.now().year
parse_uploaded_excel(sheets) ==
    ParseSheets(ParsedData(<<>>, <<>>, <<>>), sheets, NowYear)

MaxEntries == 2
XlYears == {2023, 2024}

\* the entries a year of a YearSeries is made of
EntryPalette ==
    {RankingEntry(Some(1), <<"A">>, Some(70)),
     RankingEntry(Some(2), <<"B">>, Some(65)),
     RankingEntry(None, <<"B">>, None)}

EntryLists == UNION {[1..n -> EntryPalette] : n \in 0..MaxEntries}

YearSeriesInputs == UNION {[Y -> EntryLists] : Y \in SUBSET XlYears \ {{}}}

\* evaluation items 加入手続き, サポート体制, 総合満足度
ItemNames ==
    {<<"ka2", "nyuu", "te", "tsuzu", "ki2">>,
     <<"sa", "po", "-", "to", "tai2", "sei">>,
     <<"sou", "gou", "man", "zoku2", "do">>}

\* departments 男性, 年代別, 男性/女性
DeptNames ==
    {<<"dan", "sei2">>, <<"nen", "dai", "betsu">>,
     <<"dan", "sei2", "/", "jo", "sei2">>}

XlCategories ==
    {<<"overall", <<>>>>}
    \cup {<<"item", n>> : n \in ItemNames}
    \cup {<<"dept", n>> : n \in DeptNames}

\* the orders sorted(year_data.keys(), key=_year_sort_key, reverse=True) may
\* give: analyzer.py has no _year_sort_key, so any order of the keys
YearOrders(Y) ==
    {o \in [1..Cardinality(Y) -> Y] :
        \A i, j \in 1..Cardinality(Y) : i # j => o[i] # o[j]}

ExcelInit ==
    /\ \E c \in XlCategories : xl_kind = c[1] /\ xl_name = c[2]
    /\ xl_series \in YearSeriesInputs
    /\ workbook = <<>>
    /\ parsed = <<>>
    /\ xl_pc = "start"

\* excel_data = create_excel_export(...) (app.py 47-218)
Export ==
    /\ xl_pc = "start"
    /\ \E year_order \in YearOrders(DOMAIN xl_series) :
          workbook' = create_excel_export(xl_kind, xl_name, xl_series, year_order)
    /\ xl_pc' = "exported"
    /\ UNCHANGED <<xl_kind, xl_name, xl_series, parsed>>
    /\ UNCHANGED notExcelVars

\* parse_uploaded_excel(uploaded_file) on the exported workbook (app.py 221-467)
Parse ==
    /\ xl_pc = "exported"
    /\ parsed' = parse_uploaded_excel(workbook)
    /\ xl_pc' = "parsed"
    /\ UNCHANGED <<xl_kind, xl_name, xl_series, workbook>>
    /\ UNCHANGED notExcelVars

ExcelNext == Export \/ Parse

InitExcel == ExcelInit /\ AnalyzerIdle /\ TopicsIdle /\ FetchIdle /\ OverallIdle /\ UrlIdle /\ ResolverIdle /\ AliasIdle /\ GapIdle /\ RetryIdle /\ MemoIdle /\ CatIdle /\ ValIdle /\ MergeIdle /\ AutoIdle /\ IndexIdle /\ WinsIdle

SpecExcel == InitExcel /\ [][ExcelNext]_vars

\* the YearSeries the parser holds for the exported category, empty when it
\* holds none under the category's name
RecoveredSeries ==
    IF xl_kind = "overall" THEN parsed.overall_data
    ELSE IF xl_kind = "item"
    THEN IF xl_name \in DOMAIN parsed.item_data THEN parsed.item_data[xl_name]
         ELSE <<>>
    ELSE IF xl_name \in DOMAIN parsed.dept_data THEN parsed.dept_data[xl_name]
         ELSE <<>>

TriplesOf(ys, year) == IF year \in DOMAIN ys THEN ys[year] ELSE <<>>

\* C15: exporting a category's YearSeries (overall, an evaluation item or a
\* department) and parsing the workbook again gives, for every year, the
\* same (company, rank, score) triples under the category
C15_ExportParseRoundTrip ==
    xl_pc = "parsed" =>
        \A year \in XlYears :
            TriplesOf(RecoveredSeries, year) = TriplesOf(xl_series, year)

(***************************************************************************)
(* The year loop of get_evaluation_items and get_departments (scraper.py   *)
(* 905-1148).  For the item or department being fetched the model keeps    *)
(* its used_urls entries, the pages requested for it and the years stored  *)
(* for it; they start empty again with the next item or department.  What  *)
(* a page returns is decided by the site: any outcome may happen.          *)
(***************************************************************************)
MAX_CONSECUTIVE_NOT_FOUND == 3

NumCatItems == 2

\* year_range arguments, None for the latest year only
YearRanges == {None, <<2013, 2018>>, <<2015, 2017>>}

TopYears == {2016, 2017}

\* list(range(end_year, start_year - 1, -1))
RangeDown(first_year, last_year) ==
    [i \in 1..(last_year - first_year + 1) |-> last_year + 1 - i]

\* scraper.py 929-933, 1036-1040
YearsToTry(range_arg, actual_top_year) ==
    IF range_arg # None THEN RangeDown(range_arg[1], range_arg[2])
    ELSE <<actual_top_year>>

\* a loop that never stops early
NeverGiveUp(count) == FALSE

\* scraper.py 942, 1049
GiveUp(count) == count >= MAX_CONSECUTIVE_NOT_FOUND

\* the URL forms tried for a year, in order: the top page form or the
\* /subpath/year/ form, then /year/subpath/ when there is a sub-path, then
\* for a department of 2014-2016 the forms year-(year+1) and (year-1)-year
UrlForms(kind, year, actual_top_year, has_subpath) ==
    <<IF year = actual_top_year THEN "top" ELSE "year">>
    \o (IF has_subpath THEN <<"alt">> ELSE <<>>)
    \o (IF kind = "departments" /\ year >= 2014 /\ year <= 2016
        THEN <<"special1", "special2">> ELSE <<>>)

Request(year, form) == [year |-> year, form |-> form]

UsedUrl(year, status, form) == [year |-> year, status |-> status, form |-> form]

CatInit ==
    /\ cat_kind \in {"items", "departments"}
    /\ cat_count \in 0..NumCatItems
    /\ cat_top \in TopYears
    /\ \E range_arg \in YearRanges : cat_years = YearsToTry(range_arg, cat_top)
    /\ cat_subpath \in BOOLEAN
    /\ cat_idx = 0
    /\ year_pos = 0
    /\ consecutive_not_found = 0
    /\ cat_used = <<>>
    /\ cat_requests = <<>>
    /\ cat_results = {}
    /\ cat_pc = "ready"

\* get_evaluation_items / get_departments up to the first item or
\* department (scraper.py 915-938, 1022-1045)
StartCategories ==
    /\ cat_pc = "ready"
    /\ IF cat_count = 0
       THEN cat_pc' = "returned" /\ UNCHANGED <<cat_idx, year_pos>>
       ELSE cat_pc' = "loop" /\ cat_idx' = 1 /\ year_pos' = 1
    /\ UNCHANGED <<cat_kind, cat_count, cat_years, cat_top, cat_subpath,
                   consecutive_not_found, cat_used, cat_requests, cat_results>>
    /\ UNCHANGED notCatVars

InYearLoop ==
    /\ cat_pc = "loop"
    /\ year_pos <= Len(cat_years)
    /\ ~GiveUp(consecutive_not_found)

\* scraper.py 947-954, 1054-1061
SkipUnpublished ==
    /\ InYearLoop
    /\ cat_years[year_pos] > cat_top
    /\ cat_used' = Append(cat_used, UsedUrl(cat_years[year_pos], "not_published", "-"))
    /\ year_pos' = year_pos + 1
    /\ UNCHANGED <<cat_kind, cat_count, cat_years, cat_top, cat_subpath, cat_idx,
                   consecutive_not_found, cat_requests, cat_results, cat_pc>>
    /\ UNCHANGED notCatVars

\* scraper.py 956-1008, 1063-1146: the forms are requested in order until
\* one returns data (the hit-th form) or all have been tried (hit = 0)
FetchYear ==
    /\ InYearLoop
    /\ cat_years[year_pos] <= cat_top
    /\ LET year == cat_years[year_pos]
           forms == UrlForms(cat_kind, year, cat_top, cat_subpath)
       IN  \E hit \in 0..Len(forms) :
              LET tried == IF hit = 0 THEN forms ELSE SubSeq(forms, 1, hit)
              IN  /\ cat_requests' = cat_requests
                         \o [i \in 1..Len(tried) |-> Request(year, tried[i])]
                  /\ IF hit > 0
                     THEN /\ cat_results' = cat_results \cup {year}
                          /\ cat_used' = Append(cat_used,
                                             UsedUrl(year, "success", forms[hit]))
                          /\ consecutive_not_found' = 0
                     ELSE /\ cat_results' = cat_results
                          /\ cat_used' = Append(cat_used,
                                             UsedUrl(year, "not_found", forms[1]))
                          /\ consecutive_not_found' = consecutive_not_found + 1
    /\ year_pos' = year_pos + 1
    /\ UNCHANGED <<cat_kind, cat_count, cat_years, cat_top, cat_subpath, cat_idx, cat_pc>>
    /\ UNCHANGED notCatVars

YearLoopOver ==
    /\ cat_pc = "loop"
    /\ year_pos > Len(cat_years) \/ GiveUp(consecutive_not_found)

\* the next item or department (scraper.py 935-938, 1042-1045)
NextCategory ==
    /\ YearLoopOver
    /\ cat_idx < cat_count
    /\ cat_idx' = cat_idx + 1
    /\ year_pos' = 1
    /\ consecutive_not_found' = 0
    /\ cat_used' = <<>>
    /\ cat_requests' = <<>>
    /\ cat_results' = {}
    /\ UNCHANGED <<cat_kind, cat_count, cat_years, cat_top, cat_subpath, cat_pc>>
    /\ UNCHANGED notCatVars

\* return results (scraper.py 1010, 1148)
ReturnCategories ==
    /\ YearLoopOver
    /\ cat_idx = cat_count
    /\ cat_pc' = "returned"
    /\ UNCHANGED <<cat_kind, cat_count, cat_years, cat_top, cat_subpath, cat_idx,
                   year_pos, consecutive_not_found, cat_used, cat_requests,
                   cat_results>>
    /\ UNCHANGED notCatVars

CatNext ==
    \/ StartCategories
    \/ SkipUnpublished
    \/ FetchYear
    \/ NextCategory
    \/ ReturnCategories

InitCat == CatInit /\ AnalyzerIdle /\ TopicsIdle /\ FetchIdle /\ OverallIdle /\ UrlIdle /\ ResolverIdle /\ AliasIdle /\ GapIdle /\ RetryIdle /\ MemoIdle /\ ExcelIdle /\ ValIdle /\ MergeIdle /\ AutoIdle /\ IndexIdle /\ WinsIdle

SpecCat == InitCat /\ [][CatNext]_vars

\* the entries of the years that were requested
RequestedYears == SelectSeq(cat_used, LAMBDA u : u.status # "not_published")

\* the number of not_found entries at the end of the requested years
RECURSIVE TrailingMisses(_)
TrailingMisses(used) ==
    IF used = <<>> \/ used[Len(used)].status # "not_found" THEN 0
    ELSE 1 + TrailingMisses(SubSeq(used, 1, Len(used) - 1))

\* C23: for each item / department the years are tried newest first; once
\* 3 consecutive requested years have returned no data no further year is
\* requested; a year that returns data resets the count of consecutive
\* misses to 0; a year newer than the detected top year is recorded as not
\* published without a request and without counting as a miss.
C23_StopAfterThreeMisses ==
    cat_pc \in {"loop", "returned"} =>
        /\ \A i \in 1..Len(cat_used) : cat_used[i].year = cat_years[i]
        /\ \A i \in 1..(Len(cat_years) - 1) : cat_years[i] > cat_years[i + 1]
        /\ \A i \in 1..(Len(cat_requests) - 1) :
              cat_requests[i].year >= cat_requests[i + 1].year
        /\ \A i \in 1..(Len(RequestedYears) - 3) :
              \E j \in i..(i + 2) : RequestedYears[j].status # "not_found"
        /\ consecutive_not_found = TrailingMisses(RequestedYears)
        /\ \A i \in 1..Len(cat_used) :
              /\ cat_used[i].year > cat_top <=> cat_used[i].status = "not_published"
              /\ cat_used[i].status = "not_published" => cat_used[i].form = "-"
              /\ cat_used[i].status = "success" <=> cat_used[i].year \in cat_results
        /\ \A i \in 1..Len(cat_requests) :
              /\ cat_requests[i].year <= cat_top
              /\ \E j \in 1..Len(cat_used) :
                    cat_used[j].year = cat_requests[i].year
                    /\ cat_used[j].status # "not_published"

\* a year not published, a year with data, then three misses, and the
\* remaining year never requested
C23_Witness ==
    /\ cat_pc = "returned"
    /\ Len(cat_used) = 5
    /\ Len(cat_years) = 6
    /\ cat_used[1].status = "not_published"
    /\ cat_used[2].status = "success"
    /\ consecutive_not_found = 3
    /\ \A i \in 1..Len(cat_requests) : cat_requests[i].year # cat_years[6]

(***************************************************************************)
(* URLResolverWithValidation (url_resolver.py 302-385).  Every session.get *)
(* of a call is answered by the site with a status, or raises (answer 0);  *)
(* the same URL may be answered differently when asked twice.              *)
(***************************************************************************)
\* a second URL registered under the slug online-english
OnlineEnglishOld ==
    Ranking(<<"2079">>, <<"online", "-", "english">>,
            WebUrl("life", <<"rank", "-", "online", "-", "english">>))

TwoUrlDoc ==
    File("json", required_fields, <<OnlineEnglishOld, OnlineEnglish, EnglishSchool>>, 3, None)

ValidationDocs == {GoodDoc, TwoUrlDoc}

ValidationIdentifiers ==
    {<<"2078">>, <<"2080">>, <<"9999">>, <<"online", "-", "english">>,
     <<"moving", "-", "company">>}

\* the answers of session.get: a status code, or 0 when it raises
ValidationAnswers == {200, 404, 500, 0}

\* str.isdigit for identifiers: an id is one word of digits
IsDigit(ident) ==
    /\ ident # <<>>
    /\ \A i \in 1..Len(ident) : ident[i] \in {"2078", "2079", "2080", "9999", "1001"}

\* MasterDataLoader.find_by_slug
find_by_slug(self, slug) ==
    IF slug \in DOMAIN self.rankings_by_slug
    THEN [i \in 1..Len(self.rankings_by_slug[slug]) |->
             self.rankings_by_slug[slug][i].url]
    ELSE <<>>

\* URLResolver.get_alternative_urls
get_alternative_urls(loader, ident) ==
    LET master_urls ==
            IF IsDigit(ident)
            THEN IF get_ranking(loader, ident) # None
                    /\ get_ranking(loader, ident)[1].slug # <<>>
                 THEN find_by_slug(loader, get_ranking(loader, ident)[1].slug)
                 ELSE <<>>
            ELSE find_by_slug(loader, ident)
        inferred_url == _infer_url_from_slug(ident)
    IN  IF \E i \in 1..Len(master_urls) : master_urls[i] = inferred_url
        THEN master_urls
        ELSE Append(master_urls, inferred_url)

\* a validation that accepts every answered request
AnyAnswerValid(answer) == answer # 0

\* URLResolverWithValidation._validate_url: result["valid"] for an answer
IsValid(answer) == answer = 200

ValidationRequest(url, answer) == [url |-> url, answer |-> answer]

\* the loader of the resolver
ValLoader == MasterDataLoader(val_doc, MissingFile).value

ValInit ==
    /\ val_doc \in ValidationDocs
    /\ val_ident \in ValidationIdentifiers
    /\ val_session \in BOOLEAN
    /\ val_primary = None
    /\ val_alts = <<>>
    /\ val_alt_idx = 0
    /\ val_requests = <<>>
    /\ val_result = None
    /\ val_pc = "ready"

\* url, mode = self.get_url(identifier); without a session they are returned
\* (url_resolver.py 333-336, 361)
ResolvePrimary ==
    /\ val_pc = "ready"
    /\ val_primary' = Some(get_url(ValLoader, val_ident).value)
    /\ IF val_session
       THEN val_pc' = "primary" /\ val_result' = val_result
       ELSE /\ val_pc' = "done"
            /\ val_result' = Some(Returned(get_url(ValLoader, val_ident).value))
    /\ UNCHANGED <<val_doc, val_ident, val_session, val_alts, val_alt_idx, val_requests>>
    /\ UNCHANGED notValVars

\* validation_result = self._validate_url(url) (url_resolver.py 337-343)
ValidatePrimary ==
    /\ val_pc = "primary"
    /\ \E answer \in ValidationAnswers :
          /\ val_requests' = Append(val_requests,
                                    ValidationRequest(val_primary[1][1], answer))
          /\ IF IsValid(answer)
             THEN /\ val_result' = Some(Returned(val_primary[1]))
                  /\ val_pc' = "done"
                  /\ UNCHANGED <<val_alts, val_alt_idx>>
             ELSE /\ val_alts' = get_alternative_urls(ValLoader, val_ident)
                  /\ val_alt_idx' = 1
                  /\ val_pc' = "alternatives"
                  /\ val_result' = val_result
    /\ UNCHANGED <<val_doc, val_ident, val_session, val_primary>>
    /\ UNCHANGED notValVars

\* one pass of the loop over the alternatives (url_resolver.py 345-353)
TryAlternative ==
    /\ val_pc = "alternatives"
    /\ val_alt_idx <= Len(val_alts)
    /\ LET alternative == val_alts[val_alt_idx]
       IN  IF alternative = val_primary[1][1]
           THEN /\ val_alt_idx' = val_alt_idx + 1
                /\ UNCHANGED <<val_requests, val_result, val_pc>>
           ELSE \E answer \in ValidationAnswers :
                   /\ val_requests' = Append(val_requests,
                                             ValidationRequest(alternative, answer))
                   /\ IF IsValid(answer)
                      THEN /\ val_result' = Some(Returned(<<alternative, "recovered">>))
                           /\ val_pc' = "done"
                           /\ val_alt_idx' = val_alt_idx
                      ELSE /\ val_alt_idx' = val_alt_idx + 1
                           /\ UNCHANGED <<val_result, val_pc>>
    /\ UNCHANGED <<val_doc, val_ident, val_session, val_primary, val_alts>>
    /\ UNCHANGED notValVars

\* raise ConnectionError (url_resolver.py 355-359)
RaiseConnectionError ==
    /\ val_pc = "alternatives"
    /\ val_alt_idx > Len(val_alts)
    /\ val_result' = Some(Raised("ConnectionError", None))
    /\ val_pc' = "done"
    /\ UNCHANGED <<val_doc, val_ident, val_session, val_primary, val_alts,
                   val_alt_idx, val_requests>>
    /\ UNCHANGED notValVars

ValNext ==
    \/ ResolvePrimary
    \/ ValidatePrimary
    \/ TryAlternative
    \/ RaiseConnectionError

InitVal == ValInit /\ AnalyzerIdle /\ TopicsIdle /\ FetchIdle /\ OverallIdle /\ UrlIdle /\ ResolverIdle /\ AliasIdle /\ GapIdle /\ RetryIdle /\ MemoIdle /\ ExcelIdle /\ CatIdle /\ MergeIdle /\ AutoIdle /\ IndexIdle /\ WinsIdle

SpecVal == InitVal /\ [][ValNext]_vars

\* the candidates of a call: the primary URL, then the alternatives other
\* than the primary URL, in list order
Candidates ==
    <<val_primary[1][1]>>
    \o SelectSeq(get_alternative_urls(ValLoader, val_ident),
                 LAMBDA u : u # val_primary[1][1])

LastRequest == val_requests[Len(val_requests)]

\* C24: with a session, get_url_with_validation returns only a URL that
\* answered 200 during the call: the candidates are asked in order (primary
\* URL first, then the alternatives in list order without the primary URL),
\* every one before the last asked did not answer 200; the call returns the
\* last one asked when it answered 200 -- with the mode of get_url for the
\* primary URL and "recovered" for an alternative -- and raises
\* ConnectionError, returning nothing, when all were asked and none did.
C24_ReturnsOnlyValidatedUrl ==
    (val_pc = "done" /\ val_session) =>
        /\ Len(val_requests) >= 1 /\ Len(val_requests) <= Len(Candidates)
        /\ \A i \in 1..Len(val_requests) : val_requests[i].url = Candidates[i]
        /\ \A i \in 1..(Len(val_requests) - 1) : val_requests[i].answer # 200
        /\ IF LastRequest.answer = 200
           THEN /\ val_result[1].exc = None
                /\ val_result[1].value[1] = LastRequest.url
                /\ val_result[1].value[2] =
                      IF Len(val_requests) = 1
                      THEN get_url(ValLoader, val_ident).value[2]
                      ELSE "recovered"
           ELSE /\ Len(val_requests) = Len(Candidates)
                /\ val_result[1] = Raised("ConnectionError", None)

\* the primary URL and the first alternative failed, the second answered
C24_Witness ==
    /\ val_pc = "done"
    /\ val_session
    /\ Len(val_requests) = 3
    /\ val_requests[1].answer = 404
    /\ val_requests[2].answer = 500
    /\ val_result[1].exc = None
    /\ val_result[1].value[2] = "recovered"

(***************************************************************************)
(* Merging the upload with the scrape (app.py 470-505, 1095-1205).         *)
(* A dict key is an int or a str, and 2023 and "2023" are different keys:  *)
(* a key is a record of its type and its label, <<2023>> for the year 2023 *)
(* and <<2014, 2015>> for the text "2014-2015".  The parser stores a row   *)
(* under year = int(...) (app.py 378-387); the scraper stores a page under  *)
(* str(year) (scraper.py 879, 967, 1074) or under "Y-(Y+1)" (891).         *)
(***************************************************************************)
IntYear(year) == [type |-> "int", label |-> <<year>>]

StrYear(label) == [type |-> "str", label |-> label]

\* str(year) if isinstance(year, int) else year
YearKey(k) == IF k.type = "int" THEN StrYear(k.label) ELSE k

NumMergeYears == 2

MergeYears == BaseYear..(BaseYear + NumMergeYears - 1)

UploadedRanking == <<RankingEntry(Some(1), <<"A">>, Some(70))>>

ScrapedRanking == <<RankingEntry(Some(1), <<"B">>, Some(65))>>

\* what parse_uploaded_excel returns as overall_data: rows under int years
UploadedSeries == UNION {[{IntYear(y) : y \in Y} -> {UploadedRanking}] : Y \in SUBSET MergeYears}

\* the keys get_overall_rankings(scrape_range) can store a page under: the
\* text of a year of the range, of the year after a year of the range
\* (scraper.py 818-827), and "Y-(Y+1)" (scraper.py 883-891)
OverallKeys(scrape_range) ==
    {StrYear(<<y>>) : y \in scrape_range[1]..(scrape_range[2] + 1)}
    \cup {StrYear(<<y, y + 1>>) : y \in scrape_range[1]..(scrape_range[2] - 1)}

\* the keys get_evaluation_items / get_departments store a page under
NestedKeys(scrape_range) == {StrYear(<<y>>) : y \in scrape_range[1]..scrape_range[2]}

ScrapedSeries(keys) == UNION {[K -> {ScrapedRanking}] : K \in SUBSET keys}

ItemName == <<"i", "1">>

\* app.py 1119: set(uploaded_overall.keys())
UploadedYears(uploaded_overall) == DOMAIN uploaded_overall

\* app.py 1144-1148
ScrapeYears(range_arg, uploaded_years) ==
    {y \in range_arg[1]..range_arg[2] : IntYear(y) \notin uploaded_years}

\* app.py 470-482
merge_data(uploaded_data, scraped_data) ==
    LET base == [k \in DOMAIN scraped_data |-> scraped_data[k]]
    IN  [k \in DOMAIN base \cup DOMAIN uploaded_data |->
            IF k \in DOMAIN uploaded_data THEN uploaded_data[k] ELSE base[k]]

\* app.py 485-505
merge_nested_data(uploaded_data, scraped_data) ==
    [name \in DOMAIN scraped_data \cup DOMAIN uploaded_data |->
        merge_data(IF name \in DOMAIN uploaded_data THEN uploaded_data[name] ELSE <<>>,
                   IF name \in DOMAIN scraped_data THEN scraped_data[name] ELSE <<>>)]

\* the overall upload whose years decide what is scraped
UploadedOverall ==
    IF mg_kind = "overall" THEN mg_uploaded ELSE mg_uploaded.overall

MergeInit ==
    /\ mg_kind \in {"overall", "nested"}
    /\ mg_range = <<BaseYear, BaseYear + NumMergeYears - 1>>
    /\ IF mg_kind = "overall"
       THEN mg_uploaded \in UploadedSeries
       ELSE mg_uploaded \in
               {[overall |-> o, item |-> i] :
                   o \in UploadedSeries,
                   i \in {<<>>} \cup {(ItemName :> u) : u \in UploadedSeries}}
    /\ mg_scraped = <<>>
    /\ mg_merged = <<>>
    /\ mg_pc = "uploaded"

\* app.py 1144-1178: the years not uploaded give the range that is scraped,
\* and the years of the upload are taken out of the result
ScrapeOverall ==
    /\ mg_pc = "uploaded"
    /\ mg_kind = "overall"
    /\ LET uploaded_years == UploadedYears(mg_uploaded)
           scrape_years == ScrapeYears(mg_range, uploaded_years)
       IN  IF scrape_years = {}
           THEN mg_scraped' = <<>>
           ELSE \E scraped_overall \in
                      ScrapedSeries(OverallKeys(<<Min(scrape_years), Max(scrape_years)>>)) :
                   mg_scraped' = [k \in {y \in DOMAIN scraped_overall :
                                           y \notin uploaded_years} |->
                                     scraped_overall[k]]
    /\ mg_pc' = "scraped"
    /\ UNCHANGED <<mg_kind, mg_range, mg_uploaded, mg_merged>>
    /\ UNCHANGED notMergeVars

\* app.py 1185: scraped_item = scraper.get_evaluation_items(scrape_range)
\* (1190 for the departments)
ScrapeNested ==
    /\ mg_pc = "uploaded"
    /\ mg_kind = "nested"
    /\ LET scrape_years == ScrapeYears(mg_range, UploadedYears(mg_uploaded.overall))
       IN  IF scrape_years = {}
           THEN mg_scraped' = <<>>
           ELSE \E scraped_item \in
                      {<<>>} \cup
                      {(ItemName :> ys) :
                          ys \in ScrapedSeries(
                                     NestedKeys(<<Min(scrape_years), Max(scrape_years)>>))} :
                   mg_scraped' = scraped_item
    /\ mg_pc' = "scraped"
    /\ UNCHANGED <<mg_kind, mg_range, mg_uploaded, mg_merged>>
    /\ UNCHANGED notMergeVars

\* app.py 1203
MergeOverall ==
    /\ mg_pc = "scraped"
    /\ mg_kind = "overall"
    /\ mg_merged' = merge_data(mg_uploaded, mg_scraped)
    /\ mg_pc' = "merged"
    /\ UNCHANGED <<mg_kind, mg_range, mg_uploaded, mg_scraped>>
    /\ UNCHANGED notMergeVars

\* app.py 1204-1205
MergeNested ==
    /\ mg_pc = "scraped"
    /\ mg_kind = "nested"
    /\ mg_merged' = merge_nested_data(mg_uploaded.item, mg_scraped)
    /\ mg_pc' = "merged"
    /\ UNCHANGED <<mg_kind, mg_range, mg_uploaded, mg_scraped>>
    /\ UNCHANGED notMergeVars

MergeNext ==
    \/ ScrapeOverall
    \/ ScrapeNested
    \/ MergeOverall
    \/ MergeNested

InitMerge == MergeInit /\ AnalyzerIdle /\ TopicsIdle /\ FetchIdle /\ OverallIdle /\ UrlIdle /\ ResolverIdle /\ AliasIdle /\ GapIdle /\ RetryIdle /\ MemoIdle /\ ExcelIdle /\ CatIdle /\ ValIdle /\ AutoIdle /\ IndexIdle /\ WinsIdle

SpecMerge == InitMerge /\ [][MergeNext]_vars

\* the keys of a series that stand for the calendar year
KeysOfYear(ys, year) == {k \in DOMAIN ys : k.label = <<year>>}

\* uploaded data has priority in a merged series: a calendar year has at
\* most one key, a year of the upload carries the uploaded entries, and
\* scraped entries stay only under years absent from the upload
UploadHasPriority(merged, uploaded) ==
    \A year \in BaseYear..(BaseYear + NumMergeYears) :
        /\ Cardinality(KeysOfYear(merged, year)) <= 1
        /\ KeysOfYear(uploaded, year) # {} =>
              /\ KeysOfYear(merged, year) # {}
              /\ \A k \in KeysOfYear(merged, year) : merged[k] = UploadedRanking

\* C25: when the output of parse_uploaded_excel is merged with the output of
\* the scraper by merge_data / merge_nested_data, every calendar year
\* appears once in the merged series, a year present in the upload carries
\* the uploaded entries, and scraped entries appear only for years absent
\* from the upload.
C25_UploadHasPriority ==
    mg_pc = "merged" =>
        IF mg_kind = "overall"
        THEN UploadHasPriority(mg_merged, mg_uploaded)
        ELSE \A name \in DOMAIN mg_merged :
                UploadHasPriority(mg_merged[name],
                                  IF name \in DOMAIN mg_uploaded.item
                                  THEN mg_uploaded.item[name] ELSE <<>>)

(***************************************************************************)
(* The structure analysis with URL correction (scraper.py 359-417,         *)
(* 561-606) and the fetches that follow it on the same object (scraper.py  *)
(* 848, 919, 1026).  The site answers every URL with a status.             *)
(***************************************************************************)
AutoSlugs ==
    {<<"english", "-", "school">>, <<"mobile", "-", "carrier">>,
     <<"_", "fx", "/", "infant">>}

\* the URLs a scraper can ask for: its top page and the suggestions for it
AutoUrls(self) ==
    {TopPageUrl(self)}
    \cup {_suggest_alternative_urls(TopPageUrl(self))[i].url :
             i \in 1..Len(_suggest_alternative_urls(TopPageUrl(self)))}

\* OriconScraper.validate_url(url) for the status the site answers
\* (scraper.py 388-397); a timeout or a connection error is in SpecRetry
validate_url(url, status) ==
    [is_valid |-> status >= 200 /\ status < 300,
     status_code |-> status,
     suggestions |-> IF (status < 200 \/ status >= 300) /\ status = 404
                     THEN _suggest_alternative_urls(url) ELSE <<>>]

\* scraper.py 588-594: the first suggestion that is valid, None without one
RECURSIVE FirstValid(_, _)
FirstValid(suggestions, status) ==
    IF suggestions = <<>> THEN None
    ELSE IF validate_url(Head(suggestions).url, status[Head(suggestions).url]).is_valid
         THEN Some(Head(suggestions).url)
         ELSE FirstValid(Tail(suggestions), status)

\* scraper.py 579-600: the URL passed to the structure analyzer
AnalyzedUrl(self, status, auto_correct) ==
    LET validation == validate_url(TopPageUrl(self), status[TopPageUrl(self)])
        alt_url == FirstValid(validation.suggestions, status)
    IN  IF ~validation.is_valid /\ auto_correct /\ alt_url # None
        THEN alt_url[1]
        ELSE TopPageUrl(self)

AutoInit ==
    /\ ac_scraper \in {OriconScraper(s) : s \in AutoSlugs}
    /\ ac_status \in [AutoUrls(ac_scraper) -> {200, 404}]
                     \cup {[u \in AutoUrls(ac_scraper) |->
                              IF u = TopPageUrl(ac_scraper) THEN 500 ELSE 200]}
    /\ ac_analyzed = None
    /\ ac_fetch = None
    /\ ac_pc = "new"

\* OriconScraper.analyze_structure(auto_correct): no field of the object but
\* _site_structure and _actual_top_year is assigned
AnalyzeWithCorrection ==
    /\ ac_pc = "new"
    /\ \E auto_correct \in BOOLEAN :
          ac_analyzed' = Some([url |-> AnalyzedUrl(ac_scraper, ac_status, auto_correct),
                               auto_correct |-> auto_correct])
    /\ ac_pc' = "analyzed"
    /\ UNCHANGED <<ac_scraper, ac_status, ac_fetch>>
    /\ UNCHANGED notAutoVars

\* get_overall_rankings (top_url, scraper.py 848), get_evaluation_items
\* (main_url, 919), get_departments (main_url, 1026)
FetchAfterAnalysis ==
    /\ ac_pc \in {"analyzed", "fetched"}
    /\ \E op \in {"get_overall_rankings", "get_evaluation_items", "get_departments"} :
          ac_fetch' = Some([op |-> op, url |-> TopPageUrl(ac_scraper)])
    /\ ac_pc' = "fetched"
    /\ UNCHANGED <<ac_scraper, ac_status, ac_analyzed>>
    /\ UNCHANGED notAutoVars

AutoNext ==
    \/ AnalyzeWithCorrection
    \/ FetchAfterAnalysis

InitAuto == AutoInit /\ AnalyzerIdle /\ TopicsIdle /\ FetchIdle /\ OverallIdle /\ UrlIdle /\ ResolverIdle /\ AliasIdle /\ GapIdle /\ RetryIdle /\ MemoIdle /\ ExcelIdle /\ CatIdle /\ ValIdle /\ MergeIdle /\ IndexIdle /\ WinsIdle

SpecAuto == InitAuto /\ [][AutoNext]_vars

\* the subdomain and the prefix (first path segment) of a URL
Target(url) == <<url.domain, SplitBy(url.path, "/")[1]>>

\* the top URL was invalid and a suggested alternate valid
TopInvalidAlternateValid ==
    /\ ~validate_url(TopPageUrl(ac_scraper), ac_status[TopPageUrl(ac_scraper)]).is_valid
    /\ FirstValid(validate_url(TopPageUrl(ac_scraper),
                               ac_status[TopPageUrl(ac_scraper)]).suggestions,
                  ac_status) # None

\* C26: when analyze_structure finds the configured top URL invalid and one
\* of the suggested alternate URLs valid, the structure is analysed at that
\* alternate URL and every later fetch by the same scraper object
\* (get_overall_rankings, get_evaluation_items, get_departments) targets
\* the alternate URL's subdomain and prefix rather than the URL that failed.
C26_LaterFetchesUseAlternate ==
    (/\ ac_analyzed # None
     /\ ac_analyzed[1].auto_correct
     /\ TopInvalidAlternateValid) =>
        /\ ac_analyzed[1].url # TopPageUrl(ac_scraper)
        /\ ac_status[ac_analyzed[1].url] = 200
        /\ ac_fetch # None => Target(ac_fetch[1].url) = Target(ac_analyzed[1].url)

\* the keys of the returned mapping that hold the data of the page at url
KeysHolding(url) == {k \in DOMAIN year_results : year_results[k] = url}

\* the key is the text of a year of the range, or "Y-(Y+1)" for a year Y of
\* the range
KeyInRange(k) ==
    \/ Len(k) = 1 /\ k[1] \in start_year..end_year
    \/ Len(k) = 2 /\ k[1] \in start_year..end_year /\ k[2] = k[1] + 1

\* C27: in the mapping get_overall_rankings(start, end) returns, the data of
\* one fetched ranking page is stored under at most one key, and every key
\* is a year within [start, end] or a label "Y-(Y+1)" with Y in that range;
\* a special-format page Y-(Y+1) is not stored both under Y+1 and under
\* "Y-(Y+1)".
C27_OnePageOneKey ==
    overall_pc = "done" =>
        /\ \A url \in UrlsOf(subpath) : Cardinality(KeysHolding(url)) <= 1
        /\ \A k \in DOMAIN year_results : KeyInRange(k)
        /\ \A y \in FetchYears :
              ~ /\ <<y + 1>> \in DOMAIN year_results
                /\ <<y, y + 1>> \in DOMAIN year_results
                /\ year_results[<<y + 1>>] = Url("special", y)
                /\ year_results[<<y, y + 1>>] = Url("special", y)

(***************************************************************************)
(* MasterDataLoader.reload (master_data_loader.py 288-291): the file may   *)
(* be replaced between the construction of the loader and a reload, and    *)
(* between two reloads.                                                    *)
(***************************************************************************)
MaxReloads == 2

ReloadFiles ==
    {GoodDoc, BackupDoc, MissingFile,
     File("json", required_fields, <<OnlineEnglish>>, 1, None)}

IndexInit ==
    /\ ix_file \in ReloadFiles
    /\ ix_backup \in {MissingFile, BackupDoc}
    /\ ix_loader = None
    /\ ix_raised = None
    /\ ix_reloads = 0
    /\ ix_pc = "new"

\* loader = MasterDataLoader(data_path)
NewMasterDataLoader ==
    /\ ix_pc = "new"
    /\ LET made == MasterDataLoader(ix_file, ix_backup)
       IN  /\ ix_loader' = Some(made.value)
           /\ ix_raised' = made.exc
           /\ ix_pc' = IF made.exc = None THEN "loaded" ELSE "raised"
    /\ UNCHANGED <<ix_file, ix_backup, ix_reloads>>
    /\ UNCHANGED notIndexVars

\* the master data file is replaced by another one
FileReplaced ==
    /\ ix_pc \in {"loaded", "reloaded"}
    /\ ix_file' \in ReloadFiles \ {ix_file}
    /\ ix_pc' = "changed"
    /\ UNCHANGED <<ix_backup, ix_loader, ix_raised, ix_reloads>>
    /\ UNCHANGED notIndexVars

\* loader.reload()
ReloadLoader ==
    /\ ix_pc \in {"loaded", "changed", "reloaded"}
    /\ ix_reloads < MaxReloads
    /\ LET again == _load_with_fallback(ix_loader[1], ix_file, ix_backup)
       IN  /\ ix_loader' = Some(again.value)
           /\ ix_raised' = again.exc
           /\ ix_pc' = IF again.exc = None THEN "reloaded" ELSE "raised"
    /\ ix_reloads' = ix_reloads + 1
    /\ UNCHANGED <<ix_file, ix_backup>>
    /\ UNCHANGED notIndexVars

IndexNext ==
    \/ NewMasterDataLoader
    \/ FileReplaced
    \/ ReloadLoader

InitIndex == IndexInit /\ AnalyzerIdle /\ TopicsIdle /\ FetchIdle /\ OverallIdle /\ UrlIdle /\ ResolverIdle /\ AliasIdle /\ GapIdle /\ RetryIdle /\ MemoIdle /\ ExcelIdle /\ CatIdle /\ ValIdle /\ MergeIdle /\ AutoIdle /\ WinsIdle

SpecIndex == InitIndex /\ [][IndexNext]_vars

\* the slugs of the rankings of a file
SlugsOfFile(file) ==
    {file.rankings[i].slug : i \in 1..Len(file.rankings)} \ {<<>>}

\* the URLs of the rankings of a file that have the slug, in file order
UrlsOfSlug(file, slug) ==
    LET having == SelectSeq(file.rankings, LAMBDA r : r.slug = slug)
    IN  [i \in 1..Len(having) |-> having[i].url]

\* C28: after MasterDataLoader.reload() the ID index and the slug index
\* contain exactly the rankings of the file just loaded: an ID or slug that
\* was removed from the file is no longer found, and find_by_slug returns
\* each ranking's URL once, however many times reload has been called.
C28_ReloadReplacesIndexes ==
    (ix_pc = "reloaded" /\ ix_raised = None) =>
        LET self == ix_loader[1]
            file == self.data[1]
        IN  /\ DOMAIN self.rankings_by_id = IdsOf(file)
            /\ DOMAIN self.rankings_by_slug = SlugsOfFile(file)
            /\ \A slug \in SlugsOfFile(GoodDoc) \cup SlugsOfFile(BackupDoc) :
                  find_by_slug(self, slug) = UrlsOfSlug(file, slug)

\* the operations that can set _actual_top_year
DetectingOps ==
    {"analyze_structure", "get_overall_rankings", "get_evaluation_items",
     "get_departments"}

\* the value the operation leaves in an unset _actual_top_year when the top
\* page shows the year `shown` (None: no year found): scraper.py 603-604,
\* 851-858, 614-623
YearSetBy(op, shown, end) ==
    IF op = "analyze_structure" THEN shown
    ELSE IF op = "get_overall_rankings"
         THEN IF shown # None THEN shown ELSE Some(end)
    ELSE IF shown # None THEN shown ELSE Some(NowYear)

\* C29: for a given scraper object and site state, the memoized detected
\* current year does not depend on which operation first triggers
\* detection: the value a step sets is the value each of
\* get_overall_rankings, get_evaluation_items, get_departments and
\* analyze_structure sets when it is the one called in that state.
C29_FirstOperationDoesNotMatter ==
    [][(memo_year = None /\ memo_year' # None) =>
          /\ memo_year' = YearSetBy(last_op', page_year, memo_year'[1])
          /\ \A op \in DetectingOps : \A end \in EndYears :
                YearSetBy(op, page_year, end) # None =>
                    memo_year' = YearSetBy(op, page_year, end)]_vars

(***************************************************************************)
(* TopicsAnalyzer._analyze_consecutive_wins (analyzer.py 785-887) on the   *)
(* overall series that HistoricalAnalyzer._calc_consecutive_wins has       *)
(* analysed.  The topic is kept as its numbers: the company, the count,    *)
(* and the two years of its evidence text.                                 *)
(***************************************************************************)
\* sorted(self.overall.keys(), reverse=True)
RECURSIVE SortedYearsDescending(_)
SortedYearsDescending(S) ==
    IF S = {} THEN <<>> ELSE <<Max(S)>> \o SortedYearsDescending(S \ {Max(S)})

\* analyzer.py 799-808: top_companies of the latest year, a list
LatestTopCompanies(data) == CreditScan(data, Head(data).score)

\* analyzer.py 817-834: the count of one company over years[from..]
RECURSIVE ConsecutiveFrom(_, _, _, _)
ConsecutiveFrom(overall, company, years_desc, from) ==
    IF from > Len(years_desc) THEN 0
    ELSE LET data == overall[years_desc[from]]
         IN  IF data = <<>>
             THEN ConsecutiveFrom(overall, company, years_desc, from + 1)
             ELSE IF company \in TopScan(data, Head(data).score)
                  THEN 1 + ConsecutiveFrom(overall, company, years_desc, from + 1)
                  ELSE 0

\* analyzer.py 814-838: <<best_company, best_consecutive>>
RECURSIVE BestConsecutive(_, _, _, _)
BestConsecutive(overall, companies, years_desc, best) ==
    IF companies = <<>> THEN best
    ELSE LET consecutive == ConsecutiveFrom(overall, Head(companies), years_desc, 1)
         IN  BestConsecutive(overall, Tail(companies), years_desc,
                             IF consecutive > best[2]
                             THEN <<Head(companies), consecutive>> ELSE best)

\* analyzer.py 848, 856: years[best_consecutive-1] of the evidence text
EvidenceStart(years_desc, best_consecutive) == years_desc[best_consecutive]

\* TopicsAnalyzer._analyze_consecutive_wins: None, or the topic
_analyze_consecutive_wins(overall) ==
    LET years_desc == SortedYearsDescending(DOMAIN overall)
    IN  IF DOMAIN overall = {} THEN None
        ELSE IF overall[years_desc[1]] = <<>> THEN None
        ELSE
        LET latest_year == years_desc[1]
            top_companies == LatestTopCompanies(overall[latest_year])
        IN  IF top_companies = <<>> THEN None
            ELSE
            LET best == BestConsecutive(overall, top_companies, years_desc,
                                        <<top_companies[1], 0>>)
            IN  IF best[2] >= 2
                THEN Some([kind |-> "consecutive",
                           company |-> best[1],
                           count |-> best[2],
                           from_year |-> EvidenceStart(years_desc, best[2]),
                           to_year |-> latest_year])
                ELSE IF /\ best[2] = 1
                        /\ Len(years_desc) >= 2
                        /\ overall[years_desc[2]] # <<>>
                        /\ \A i \in 1..Len(top_companies) :
                              top_companies[i] #
                                  normalize_company_name(
                                      Head(overall[years_desc[2]]).company)
                THEN Some([kind |-> "change",
                           company |-> best[1],
                           count |-> best[2],
                           from_year |-> years_desc[2],
                           to_year |-> latest_year])
                ELSE None

WinsInit ==
    /\ category = "overall"
    /\ win_topic = None
    /\ win_pc = "start"

\* app.py 1214-1220: both analyzers get the same overall data
AnalyzeConsecutiveWins ==
    /\ win_pc = "start"
    /\ phase = "streaks_done"
    /\ win_topic' = _analyze_consecutive_wins(series)
    /\ win_pc' = "done"
    /\ UNCHANGED notWinsVars

WinsNext ==
    \/ SkipYear
    \/ ProcessYear
    \/ CloseRemaining
    \/ AnalyzeConsecutiveWins

InitWins == WinsInit /\ AnalyzerInit /\ TopicsIdle /\ FetchIdle /\ OverallIdle /\ UrlIdle /\ ResolverIdle /\ AliasIdle /\ GapIdle /\ RetryIdle /\ MemoIdle /\ ExcelIdle /\ CatIdle /\ ValIdle /\ MergeIdle /\ AutoIdle /\ IndexIdle

SpecWins == InitWins /\ [][WinsNext]_vars

\* the current streak records of the company in the returned list
CurrentRecords(company) ==
    {r \in Records : r.company = company /\ r.is_current = Some(TRUE)}

\* C30: for every overall series, the consecutive-win topic of
\* TopicsAnalyzer agrees with HistoricalAnalyzer: the reported number of
\* consecutive wins of the latest-year #1 company is the count of that
\* company's current streak record, and the start year named in the
\* topic's evidence is that record's start_year.
C30_TopicAgreesWithStreakRecord ==
    (/\ win_pc = "done"
     /\ win_topic # None
     /\ win_topic[1].kind = "consecutive") =>
        /\ CurrentRecords(win_topic[1].company) # {}
        /\ \A r \in CurrentRecords(win_topic[1].company) :
              /\ r.years = win_topic[1].count
              /\ r.start_year = win_topic[1].from_year
====
